---- MODULE Spec2Model ----
(***************************************************************************)
(* A model of the moderation pipeline of tg-chat-moderator:                *)
(*   ModerationEngine (src/src/moderation/engine.py)                       *)
(*   BatchQueue       (src/src/moderation/batch.py)                        *)
(*   QuotaManager     (src/src/moderation/quota.py)                        *)
(*   ProcessedCache   (src/src/moderation/cache.py)                        *)
(*   NewcomerTracker  (src/src/moderation/newcomer.py)                     *)
(*   UserReputation   (src/src/moderation/reputation.py)                   *)
(*   StatusReporter   (src/src/moderation/status.py)                       *)
(*   run and its background tasks (src/src/main.py)                        *)
(*                                                                         *)
(* The process is one asyncio event loop.  A step of the model is the code *)
(* a coroutine runs between two suspension points (awaits that really      *)
(* yield): the LLM HTTP calls, the timed wait of the flush loop, and the   *)
(* platform RPCs.  asyncio.Lock is never held across a suspension in       *)
(* batch.py, so `async with self._lock` never yields.                      *)
(*                                                                         *)
(* Time is wall-clock seconds (time.time()); the clock advances by the     *)
(* steps of ClockSteps.                                                    *)
(***************************************************************************)
EXTENDS Integers, Sequences, FiniteSets, Bags, TLC

VARIABLES
    now,              \* time.time(), whole seconds
    config,           \* [provider, dry_run, admin_ids]: LLMConfig.provider,
                      \* ModerationConfig.dry_run, ModerationEngine.admin_ids
    context_buffer,   \* ModerationPromptBuilder._context_buffer: [maxlen, items]
    status,           \* StatusReporter: [message_id, last_update_time, initialized,
                      \* force_update, last_ban_time, last_batch_time]
    updates,          \* the StatusReporter.update calls: caller -> [pc, now, message_id]
                      \* (message_id: the id the call gave to edit_message, 0 when
                      \* it had none)
    run,              \* main.run: [pc, stop_event, closed, warmup, in_flight, lost]
    cache,            \* ProcessedCache._cache: keys, least recently used first
    user_last_action, \* ModerationEngine._user_last_action
    user_warnings,    \* ModerationEngine._user_warnings
    users,            \* UserReputation.users: user -> [known, first_seen, message_count, strikes]
                      \* (strikes: the Strike records, oldest first)
    newcomers,        \* NewcomerTracker._users: user -> first_seen, or Absent
    queue,            \* BatchQueue._queue
    flush_event,      \* BatchQueue._flush_event
    loop,             \* the run_loop task: [pc, deadline, items, verdicts, idx]
    inst,             \* the _evaluate_instant tasks suspended at their LLM call (a bag)
    quota,            \* QuotaManager: [day_start, requests_used, newcomer_requests, last_batch_time]
    call,             \* one LLMClient.chat call: [pc, ep, attempt, slept, log, result, error]
    hist              \* history of the run, read by the properties only

vars == << now, config, context_buffer, status, updates, run, cache, user_last_action, user_warnings, users, newcomers,
           queue, flush_event, loop, inst, quota, call, hist >>

----------------------------------------------------------------------------
(* Bounds of the model *)

MaxDeliveries == 2     \* gateway events (calls of evaluate) in a run
MaxTicks == 2          \* advances of the clock in a run, ClockStep seconds each
MaxRecords == 4        \* record_* calls in a run of the quota specification
MaxAdds == 3           \* BatchQueue.add calls in a run of the batch specification

(* Configuration the model runs with *)

user_cooldown_seconds == 20      \* ModerationConfig.user_cooldown_seconds
max_size == 1                    \* ProcessedCache(max_size)
max_batch_tokens == 2            \* BatchQueue(max_batch_tokens)
daily_limit == 3                 \* QuotaManager(daily_limit)
window_hours == 24               \* NewcomerTracker(window_hours)
trusted_min_days == 7            \* UserReputation(trusted_min_days)
trusted_min_messages == 50       \* UserReputation(trusted_min_messages)
review_group == TRUE             \* ActionExecutor.review_group is set

(* Program constants *)

max_retries == 2                 \* LLMClient(max_retries)
DaySeconds == 86400              \* one UTC day; reputation.py divides by it
IntervalFloor == 10              \* quota.py: max(10.0, interval)
ExhaustedInterval == 3600        \* quota.py: interval when no request remains
LoopMinTimeout == 1              \* batch.py: max(1.0, interval)
STATUS_UPDATE_INTERVAL == 300    \* status.py: minimum seconds between status updates

ExcerptChars == 100              \* reputation.py: message_text[:100]

Absent == -1                     \* "not in the dict" / None for a timestamp
NoUser == 0                      \* message.sender_id is None

\* The run starts 10 s before a UTC midnight, so that the day can roll over.
StartTime == 10 * DaySeconds - 10
\* The clock advances in steps of the shortest interval the quota manager returns.
ClockStep == IntervalFloor

Users == {1, 2}
\* A text is known by its length and by whether a hard-ban keyword occurs in it.
Texts == { [len |-> 4, spam |-> FALSE],
           [len |-> 8, spam |-> FALSE],
           [len |-> 9, spam |-> FALSE],
           [len |-> 8, spam |-> TRUE] }
\* One chat; every message has its own (chat_id, message_id), so a message is
\* known by its sender and its text, and delivering it again is a redelivery.
Messages == [user : Users, text : Texts]

Max(a, b) == IF a >= b THEN a ELSE b

----------------------------------------------------------------------------
(* QuotaManager *)

current_day_start(t) == t - (t % DaySeconds)

seconds_until_midnight(t) == DaySeconds - (t % DaySeconds)

\* variant: the rollover forgets the newcomer counter
maybe_reset_used_only(q, t) ==
    IF current_day_start(t) > q.day_start
    THEN [q EXCEPT !.day_start = current_day_start(t), !.requests_used = 0]
    ELSE q

\* variant: the rollover zeroes the counters and keeps day_start
maybe_reset_counters_only(q, t) ==
    IF current_day_start(t) > q.day_start
    THEN [q EXCEPT !.requests_used = 0, !.newcomer_requests = 0]
    ELSE q

\* variant: the rollover moves day_start and keeps the counters
maybe_reset_day_only(q, t) ==
    IF current_day_start(t) > q.day_start
    THEN [q EXCEPT !.day_start = current_day_start(t)]
    ELSE q

maybe_reset(q, t) ==
    IF current_day_start(t) > q.day_start
    THEN [q EXCEPT !.day_start = current_day_start(t),
                   !.requests_used = 0,
                   !.newcomer_requests = 0]
    ELSE q

remaining_requests(q, t) == Max(0, daily_limit - maybe_reset(q, t).requests_used)

\* variant: the time left is divided by the requests already used
interval_seconds_by_used(q, t) ==
    LET used == maybe_reset(q, t).requests_used IN
    IF daily_limit - used <= 0
    THEN << ExhaustedInterval, 1 >>
    ELSE IF seconds_until_midnight(t) >= IntervalFloor * (used + 1)
         THEN << seconds_until_midnight(t), used + 1 >>
         ELSE << IntervalFloor, 1 >>

\* interval_seconds as the exact fraction << numerator, denominator >>
interval_seconds(q, t) ==
    LET remaining == remaining_requests(q, t) IN
    IF remaining <= 0
    THEN << ExhaustedInterval, 1 >>
    ELSE IF seconds_until_midnight(t) >= IntervalFloor * remaining
         THEN << seconds_until_midnight(t), remaining >>
         ELSE << IntervalFloor, 1 >>

\* variant: a batch request is counted twice
record_batch_request_twice(q, t, count) ==
    LET r == maybe_reset(q, t) IN
    [r EXCEPT !.requests_used = r.requests_used + 2 * count,
              !.last_batch_time = t]

record_batch_request(q, t, count) ==
    LET r == maybe_reset(q, t) IN
    [r EXCEPT !.requests_used = r.requests_used + count,
              !.last_batch_time = t]

\* variant: only the newcomer counter moves
record_newcomer_only(q, t) ==
    [maybe_reset(q, t) EXCEPT !.newcomer_requests = @ + 1]

record_newcomer_request(q, t) ==
    LET r == maybe_reset(q, t) IN
    [r EXCEPT !.requests_used = r.requests_used + 1,
              !.newcomer_requests = r.newcomer_requests + 1]

----------------------------------------------------------------------------
(* ProcessedCache: an OrderedDict, oldest entry first *)

InSeq(s, k) == \E i \in 1..Len(s) : s[i] = k

Without(s, k) == SelectSeq(s, LAMBDA x : x # k)

\* variant: a cache that never reports a hit
is_processed_never(c, k) == FALSE

is_processed(c, k) == InSeq(c, k)

\* the cache after is_processed(k): a hit moves the key to the end
touch(c, k) == IF InSeq(c, k) THEN Append(Without(c, k), k) ELSE c

\* variant: nothing is evicted
evict_nothing(c, size) == c

\* while len(self._cache) > self.max_size: self._cache.popitem(last=False)
RECURSIVE evict_to(_, _)
evict_to(c, size) == IF Len(c) > size THEN evict_to(Tail(c), size) ELSE c

\* mark_processed of a ProcessedCache(max_size=size)
mark_processed_in(c, k, size) == evict_to(Append(Without(c, k), k), size)

evict(c) == evict_to(c, max_size)

mark_processed(c, k) == mark_processed_in(c, k, max_size)

----------------------------------------------------------------------------
(* NewcomerTracker *)

window_seconds == window_hours * 3600

register_user(n, u, t) == IF n[u] = Absent THEN [n EXCEPT ![u] = t] ELSE n

\* variant: the window includes its far end
is_newcomer_inclusive(n, u, t) ==
    IF n[u] = Absent THEN TRUE ELSE (t - n[u]) <= window_seconds

is_newcomer(n, u, t) == IF n[u] = Absent THEN TRUE ELSE (t - n[u]) < window_seconds

\* bulk_register(user_ids): unknown users and newcomers are dated before the window
bulk_register(n, user_ids, t) ==
    LET old_ts == t - window_seconds - 1 IN
    [u \in DOMAIN n |->
       IF u \notin user_ids THEN n[u]
       ELSE IF n[u] = Absent THEN old_ts
       ELSE IF (t - n[u]) < window_seconds THEN old_ts
       ELSE n[u]]

----------------------------------------------------------------------------
(* UserReputation *)

NoStats == [known |-> FALSE, first_seen |-> Absent, message_count |-> 0, strikes |-> << >>]

create_user(us, u, t) ==
    IF us[u].known THEN us
    ELSE [us EXCEPT ![u] = [known |-> TRUE, first_seen |-> t,
                            message_count |-> 0, strikes |-> << >>]]

update_activity(us, u, t) ==
    LET c == create_user(us, u, t) IN
    [c EXCEPT ![u].message_count = c[u].message_count + 1]

\* variant: the whole message text is stored
message_excerpt_whole(text) == [kept |-> text.len, ellipsis |-> FALSE]

\* message_text[:100] + ("..." if len(message_text) > 100 else ""): how many
\* characters of the text are kept, and whether the three dots follow
message_excerpt(text) ==
    [kept |-> IF text.len < ExcerptChars THEN text.len ELSE ExcerptChars,
     ellipsis |-> text.len > ExcerptChars]

\* len() of a stored excerpt
excerpt_len(e) == e.kept + (IF e.ellipsis THEN 3 ELSE 0)

add_strike(us, u, t, rule, reason, text) ==
    LET c == create_user(us, u, t) IN
    [c EXCEPT ![u].strikes = Append(@, [timestamp |-> t, rule |-> rule, reason |-> reason,
                                        message_excerpt |-> message_excerpt(text)])]

get_tier(us, u, t) ==
    IF ~us[u].known THEN "newcomer"
    ELSE IF (t - us[u].first_seen) >= trusted_min_days * DaySeconds
            /\ us[u].message_count >= trusted_min_messages
         THEN "trusted"
         ELSE IF (t - us[u].first_seen) >= DaySeconds THEN "regular" ELSE "newcomer"

is_trusted(us, u, t) == get_tier(us, u, t) = "trusted"

----------------------------------------------------------------------------
(* LLMClient: which endpoints the provider setting builds *)

Endpoints(provider) ==
    (IF provider \in {"openrouter", "both"} THEN << "openrouter" >> ELSE << >>)
    \o (IF provider \in {"local", "both"} THEN << "local" >> ELSE << >>)

has_local(provider) == InSeq(Endpoints(provider), "local")

has_openrouter(provider) == InSeq(Endpoints(provider), "openrouter")

----------------------------------------------------------------------------
(* LLMClient.chat: the failover loop over the endpoints *)

\* what one await ep.chat(messages) can end with: a response, RateLimitError,
\* ConnectError or ConnectTimeout, HTTPStatusError with a status >= 500,
\* HTTPStatusError with another status, any other exception
Outcomes == {"ok", "429", "connect", "5xx", "4xx", "other"}

NoCall == [pc |-> "idle", ep |-> 0, attempt |-> 0, slept |-> 0, log |-> << >>,
           result |-> "none", error |-> "none"]

\* the for loop over self._endpoints takes its next element, or ends
next_endpoint(c, eps) ==
    IF c.ep < Len(eps)
    THEN [c EXCEPT !.pc = "attempt", !.ep = @ + 1, !.attempt = 0]
    ELSE [c EXCEPT !.pc = "raised", !.error = "all endpoints failed"]

\* variant: a connect error is retried like a rate limit
after_attempt_retry_connect(c0, outcome, eps) ==
    LET c == [c0 EXCEPT !.log = Append(@, [ep |-> eps[c0.ep], outcome |-> outcome])] IN
    IF outcome = "ok" THEN [c EXCEPT !.pc = "returned", !.result = eps[c.ep]]
    ELSE IF outcome \in {"429", "connect"}
    THEN IF c.attempt < max_retries - 1
         THEN [c EXCEPT !.pc = "sleep", !.slept = 2 ^ c.attempt]
         ELSE next_endpoint(c, eps)
    ELSE IF outcome = "5xx" THEN [c EXCEPT !.pc = "sleep", !.slept = 2 ^ c.attempt]
    ELSE IF outcome = "4xx" THEN [c EXCEPT !.pc = "raised", !.error = "status"]
    ELSE [c EXCEPT !.pc = "sleep", !.slept = 1]

\* variant: every HTTP status error is retried
after_attempt_retry_status(c0, outcome, eps) ==
    LET c == [c0 EXCEPT !.log = Append(@, [ep |-> eps[c0.ep], outcome |-> outcome])] IN
    IF outcome = "ok" THEN [c EXCEPT !.pc = "returned", !.result = eps[c.ep]]
    ELSE IF outcome = "429"
    THEN IF c.attempt < max_retries - 1
         THEN [c EXCEPT !.pc = "sleep", !.slept = 2 ^ c.attempt]
         ELSE next_endpoint(c, eps)
    ELSE IF outcome = "connect" THEN next_endpoint(c, eps)
    ELSE IF outcome \in {"5xx", "4xx"} THEN [c EXCEPT !.pc = "sleep", !.slept = 2 ^ c.attempt]
    ELSE [c EXCEPT !.pc = "sleep", !.slept = 1]

\* one round of the try statement in the attempt loop
after_attempt(c0, outcome, eps) ==
    LET c == [c0 EXCEPT !.log = Append(@, [ep |-> eps[c0.ep], outcome |-> outcome])] IN
    IF outcome = "ok" THEN [c EXCEPT !.pc = "returned", !.result = eps[c.ep]]
    ELSE IF outcome = "429"
    THEN IF c.attempt < max_retries - 1
         THEN [c EXCEPT !.pc = "sleep", !.slept = 2 ^ c.attempt]
         ELSE next_endpoint(c, eps)
    ELSE IF outcome = "connect" THEN next_endpoint(c, eps)
    ELSE IF outcome = "5xx" THEN [c EXCEPT !.pc = "sleep", !.slept = 2 ^ c.attempt]
    ELSE IF outcome = "4xx" THEN [c EXCEPT !.pc = "raised", !.error = "status"]
    ELSE [c EXCEPT !.pc = "sleep", !.slept = 1]

\* variant: one attempt more than max_retries
after_sleep_one_more(c, eps) ==
    IF c.attempt + 1 < max_retries + 1
    THEN [c EXCEPT !.pc = "attempt", !.attempt = @ + 1]
    ELSE next_endpoint(c, eps)

\* asyncio.sleep is over: the next attempt, or the end of range(max_retries)
after_sleep(c, eps) ==
    IF c.attempt + 1 < max_retries
    THEN [c EXCEPT !.pc = "attempt", !.attempt = @ + 1]
    ELSE next_endpoint(c, eps)

----------------------------------------------------------------------------
(* What the policy model answers *)

VerdictTags == {"ok", "warn", "delete", "mute", "ban"}
\* "kick" stands for any value of the "verdict" key outside the five tags
AnswerTags == VerdictTags \cup {"kick"}

\* A parsed JSON value at the place of a verdict: a dict with a "verdict" key,
\* or something verdict["verdict"] raises on (a non-dict, a dict without the key).
Dict(tag, reason) == [kind |-> "dict", verdict |-> tag, reason |-> reason]
Malformed == [kind |-> "malformed", verdict |-> "", reason |-> ""]
\* A {...} substring that json.loads rejects
Unparseable == [kind |-> "unparseable", verdict |-> "", reason |-> ""]

\* verdict.get("rule", "general")
rule_of(v) == IF "rule" \in DOMAIN v THEN v.rule ELSE "general"

Values == { Dict(tag, "llm") : tag \in AnswerTags } \cup { Malformed }

\* The text of a single-verdict answer: a JSON document, the same inside
\* ``` fences, a JSON object inside prose, or text with no JSON in it.
Answers == [form : {"json", "fenced", "embedded"}, val : Values]
           \cup { [form |-> "garbage", val |-> Malformed] }

\* variant: text without a verdict is answered with a delete
parse_verdict_strict(raw) ==
    IF raw.form \in {"json", "fenced", "embedded"}
    THEN raw.val
    ELSE Dict("delete", "unparseable LLM response")

parse_verdict(raw) ==
    IF raw.form \in {"json", "fenced", "embedded"}
    THEN raw.val
    ELSE Dict("ok", "unparseable LLM response")

\* The text of a batch answer: a JSON array (bare, fenced or inside prose),
\* loose {...} objects of which `parse` are valid JSON, or text with no JSON in
\* it.  `count` is the number of elements; what each element holds is drawn
\* when the for loop of handle_batch_flush reads it.
BatchAnswers(n) ==
    [form : {"array", "fenced", "embedded"}, count : 0..(n + 1), parse : {0}]
    \cup { a \in [form : {"objects"}, count : 1..(n + 1), parse : 0..(n + 1)] :
             a.parse <= a.count }
    \cup { [form |-> "garbage", count |-> 0, parse |-> 0] }

\* parse_batch_verdicts: the length of the list it returns, and whether the
\* list is the fail-safe one
parse_batch_verdicts(raw, expected_count) ==
    IF raw.form \in {"array", "fenced", "embedded"}
    THEN [len |-> raw.count, failsafe |-> FALSE]
    ELSE IF raw.form = "objects" /\ raw.parse > 0
    THEN [len |-> raw.parse, failsafe |-> FALSE]
    ELSE [len |-> expected_count, failsafe |-> TRUE]

----------------------------------------------------------------------------
(* BatchQueue *)

estimated_tokens(m) == Max(1, m.text.len \div 4)

RECURSIVE queue_tokens(_)
queue_tokens(q) == IF q = << >> THEN 0 ELSE estimated_tokens(Head(q)) + queue_tokens(Tail(q))

\* variant: the signal needs more than max_batch_tokens
add_strict(q, ev, m) ==
    LET q1 == Append(q, m) IN
    [queue |-> q1, flush_event |-> ev \/ queue_tokens(q1) > max_batch_tokens]

\* add: the queue and the flush signal after the call
add(q, ev, m) ==
    LET q1 == Append(q, m) IN
    [queue |-> q1, flush_event |-> ev \/ queue_tokens(q1) >= max_batch_tokens]

\* variant: the queue never counts as empty
is_empty_never(q) == FALSE

\* BatchQueue.is_empty
is_empty(q) == Len(q) = 0

\* variant: the newest item is neither returned nor kept
drain_lossy(q) == [items |-> SubSeq(q, 1, Len(q) - 1), queue |-> << >>]

\* variant: the queue is not cleared
drain_keep(q) == [items |-> q, queue |-> q]

\* drain: what is returned and what is left
drain(q) == [items |-> q, queue |-> << >>]

----------------------------------------------------------------------------
(* StatusReporter.  Message ids are positive; 0 is None.  In the pipeline
   specifications the reporter is seen through its callers only: which
   dispatch calls update() and reads quota.status_dict() for it; its own
   state and the interleaving of its update() calls are those of the status
   specification. *)

\* the callers of update(): run() at startup, the run_loop task (tick callback
\* and flush handler), and a task evaluating a message on the instant path
StatusCallers == {"startup", "loop", "instant"}

\* StatusReporter.__init__
NoStatus == [message_id |-> 0, last_update_time |-> 0, initialized |-> FALSE,
             force_update |-> FALSE, last_ban_time |-> Absent, last_batch_time |-> Absent]

NoUpdate == [pc |-> "idle", now |-> 0, message_id |-> 0]

NoUpdates == [c \in StatusCallers |-> NoUpdate]

record_ban(st, t) == [st EXCEPT !.last_ban_time = t, !.force_update = TRUE]

record_batch(st, t) == [st EXCEPT !.last_batch_time = t, !.force_update = TRUE]

\* variant: the force flag is not looked at
throttled_unforced(st, t) ==
    st.last_update_time > 0 /\ t - st.last_update_time < STATUS_UPDATE_INTERVAL

\* update: the throttle of lines 130-134
throttled(st, t) ==
    /\ ~st.force_update
    /\ st.last_update_time > 0
    /\ t - st.last_update_time < STATUS_UPDATE_INTERVAL

\* update from the throttle to its first await: the reporter, and where the
\* call is then (returned, awaiting edit_message, or awaiting send_message)
begin_update(st, t) ==
    IF throttled(st, t) THEN [status |-> st, update |-> NoUpdate]
    ELSE [status |-> [st EXCEPT !.force_update = FALSE],
          update |-> IF st.message_id # 0
                     THEN [pc |-> "edit", now |-> t, message_id |-> st.message_id]
                     ELSE [pc |-> "send", now |-> t, message_id |-> 0]]

\* variant: "not modified" is handled like any other error of the edit
after_edit_strict(st, up, outcome) ==
    IF outcome = "ok"
    THEN [status |-> [st EXCEPT !.last_update_time = up.now], update |-> NoUpdate]
    ELSE [status |-> [st EXCEPT !.message_id = 0],
          update |-> [up EXCEPT !.pc = "send"]]

\* update after the await of edit_message: it returned, raised
\* MessageNotModifiedError, or raised something else
after_edit(st, up, outcome) ==
    IF outcome \in {"ok", "not_modified"}
    THEN [status |-> [st EXCEPT !.last_update_time = up.now], update |-> NoUpdate]
    ELSE [status |-> [st EXCEPT !.message_id = 0],
          update |-> [up EXCEPT !.pc = "send"]]

----------------------------------------------------------------------------
(* ModerationPromptBuilder: the sliding context window, a deque(maxlen) *)

\* deque(maxlen=context_window), empty; the pipeline runs with context_window = 0
\* where the window is not looked at
NoContext == [maxlen |-> 0, items |-> << >>]

\* variant: the window keeps its oldest entries
add_context_message_keep_old(buf, entry) ==
    IF Len(buf.items) < buf.maxlen
    THEN [buf EXCEPT !.items = Append(@, entry)]
    ELSE buf

\* deque.append on a bounded deque: a full deque drops its leftmost entry
add_context_message(buf, entry) ==
    LET s == Append(buf.items, entry) IN
    [buf EXCEPT !.items = IF Len(s) > buf.maxlen
                          THEN SubSeq(s, Len(s) - buf.maxlen + 1, Len(s))
                          ELSE s]

----------------------------------------------------------------------------
(* ModerationEngine *)

\* variant: a pre-filter with no rules
check_no_rules(text) == "None"

check(text) == IF text.spam THEN "keyword:spamword" ELSE "None"

is_on_cooldown(ula, u, t) ==
    IF user_cooldown_seconds <= 0 THEN FALSE
    ELSE (t - ula[u]) < user_cooldown_seconds

record_action(ula, u, t) == [ula EXCEPT ![u] = t]

\* A chat is known by whether "test" occurs in its lower-cased title and by its id.
Chats == [has_test : BOOLEAN, id : {"42", "5139770999", "-5139770999", "-1005139770999"}]

\* abs(int(chat_id)), on the ids above
AbsId(id) == IF id = "-5139770999" THEN "5139770999"
             ELSE IF id = "-1005139770999" THEN "1005139770999"
             ELSE id

\* is_test_group_route of evaluate
is_test_group(chat) ==
    chat.has_test \/ AbsId(chat.id) = "5139770999" \/ AbsId(chat.id) = "1005139770999"

\* variant: the test group is not looked at
route_chat_no_test(provider, n, u, t, test_group) ==
    IF is_newcomer(n, u, t) /\ has_local(provider) THEN "local"
    ELSE IF has_openrouter(provider) THEN "batch"
    ELSE "any"

\* step 6 of evaluate, for a chat that may be a test group
route_chat(provider, n, u, t, test_group) ==
    IF (is_newcomer(n, u, t) \/ test_group) /\ has_local(provider) THEN "local"
    ELSE IF has_openrouter(provider) THEN "batch"
    ELSE "any"

\* variant: newcomers are sent to the cloud model directly
route_cloud(provider, n, u, t) ==
    IF is_newcomer(n, u, t) THEN "openrouter"
    ELSE IF has_openrouter(provider) THEN "batch"
    ELSE "any"

\* step 6 of evaluate in a chat that is no test group
route(provider, n, u, t) == route_chat(provider, n, u, t, FALSE)

\* variant: the pre-filter deletes in dry-run mode as well
prefilter_action_always(dry_run) == "delete"

\* step 4 of evaluate: the ActionExecutor method a pre-filter match calls
prefilter_action(dry_run) == IF dry_run THEN "none" ELSE "delete"

\* step 4 of evaluate: the verdict tag of the pre-filter's review forward
prefilter_verdict(dry_run) ==
    "delete (pre-filter)" \o (IF dry_run THEN " [DRY RUN]" ELSE "")

\* variant: only a ban is downgraded
downgrade_ban_only(us, u, t, action) ==
    is_trusted(us, u, t) /\ action = "ban"

\* variant: a warn is downgraded as well
downgrade_any_action(us, u, t, action) ==
    is_trusted(us, u, t) /\ action \in {"warn", "ban", "mute", "delete"}

\* engine.py:428: a trusted user's ban, mute or delete becomes a strike
downgrade(us, u, t, action) ==
    is_trusted(us, u, t) /\ action \in {"ban", "mute", "delete"}

\* variant: the if/elif chain ends in an else that acts
executed_any(action) == TRUE

\* the if/elif chain of _apply_verdict: the actions that have a branch
executed(action) == action \in {"warn", "delete", "mute", "ban"}

\* _apply_verdict: the new engine state, which ActionExecutor method was
\* called, the verdict tag of the review forward, whether status.update was
\* called, and whether verdict["verdict"] raised.
apply_verdict(v, m, dry_run, ula, warnings, us, t) ==
    LET u == m.user
        action == v.verdict
        same == [raised |-> FALSE, ula |-> ula, warnings |-> warnings, users |-> us,
                 rpc |-> "none", strike |-> 0, forward |-> "none", status |-> FALSE,
                 trusted |-> is_trusted(us, u, t)]
    IN
    IF v.kind # "dict" THEN [same EXCEPT !.raised = TRUE]
    ELSE IF action = "ok" THEN same
    ELSE IF dry_run
    THEN [same EXCEPT !.forward = IF review_group THEN action \o " [DRY RUN]" ELSE "none",
                      !.status = review_group]
    ELSE IF downgrade(us, u, t, action)
    THEN [same EXCEPT !.ula = record_action(ula, u, t),
                      !.users = add_strike(us, u, t, rule_of(v), v.reason, m.text),
                      !.strike = 1,
                      !.forward = IF review_group
                                  THEN "STRIKE (" \o action \o " bypassed)" ELSE "none"]
    ELSE [same EXCEPT !.ula = record_action(ula, u, t),
                      !.warnings = IF executed(action)
                                   THEN [warnings EXCEPT ![u] = @ + 1] ELSE warnings,
                      !.rpc = IF executed(action) THEN action ELSE "none",
                      !.forward = IF review_group THEN action ELSE "none",
                      !.status = review_group]

\* variant: the newcomer path calls the cloud endpoint
instant_call_cloud(provider) ==
    IF provider \in {"local", "openrouter"} THEN "chat_openrouter"
    ELSE "chat"

\* _evaluate_instant: which LLMClient method the task awaits
instant_call(provider) ==
    IF provider = "local" THEN "chat_local"
    ELSE IF provider = "openrouter" THEN "chat_openrouter"
    ELSE "chat"

\* the endpoint a suspended call is talking to
target(task, cfg) ==
    IF instant_call(task.provider) = "chat_local" THEN "local"
    ELSE IF instant_call(task.provider) = "chat_openrouter" THEN "openrouter"
    ELSE Endpoints(cfg.provider)[task.ep]

----------------------------------------------------------------------------
(* The flush loop: BatchQueue.run_loop with handle_batch_flush as on_flush *)

CeilDiv(a, b) == (a + b - 1) \div b

\* timeout=max(1.0, interval), in whole seconds of the clock
wait_timeout(q, t) ==
    LET i == interval_seconds(q, t) IN Max(LoopMinTimeout, CeilDiv(i[1], i[2]))

\* variant: the wait ends on its timeout only
wait_ends_on_timeout(ev, t, deadline) == t >= deadline

\* asyncio.wait_for(self._flush_event.wait(), timeout): it returns as soon as
\* the signal is set, and at the deadline when not
wait_ends(ev, t, deadline) == ev \/ t >= deadline

NoVerdicts == [len |-> 0, failsafe |-> FALSE]

Idle == [pc |-> "off", deadline |-> 0, items |-> << >>, verdicts |-> NoVerdicts, idx |-> 0]

\* top of the while loop: get_interval(), then wait_for(self._flush_event.wait(), timeout)
wait_for(q, t) == [Idle EXCEPT !.pc = "waiting", !.deadline = t + wait_timeout(q, t)]

----------------------------------------------------------------------------
(* main.run and its background tasks.  run.pc is where run() is: "serving"
   (in run_until_disconnected), then through its finally block: "closing"
   (awaiting llm_client.close()), "disconnecting" (awaiting
   session.disconnect()), "returned".  run.warmup is where _warmup_loop is.
   run.in_flight and run.lost are history: the tasks whose LLM call was in
   flight when stop_event was set, and those of them whose call was ended
   from outside. *)

NoRun == [pc |-> "serving", stop_event |-> FALSE, closed |-> FALSE, warmup |-> "off",
          in_flight |-> {}, lost |-> {}]

\* the top of both loops: `while not stop_event.is_set()` / `if ... is_set(): break`
loop_top(stop_event, go_on) == IF stop_event THEN "stopped" ELSE go_on

----------------------------------------------------------------------------
(* History of the run *)

\* hist.event: the arguments of the last evaluate call (in the cache
\* specification: the key of the last cache operation)
NoEvent == [msg |-> [user |-> NoUser, text |-> [len |-> 0, spam |-> FALSE]],
            test_group |-> FALSE]

NoDispatch ==
    [src |-> "none", cause |-> "none", user |-> 0, verdict |-> "", reason |-> "",
     trusted |-> FALSE, dry |-> FALSE,
     rpc |-> "none", strike |-> 0, forward |-> "none", status |-> FALSE,
     t |-> 0, prev |-> Absent, rule |-> "", len |-> 0, llm |-> "none", error |-> "none"]

Dispatched(src, cause, m, v, r, cfg, t, h) ==
    [src |-> src, cause |-> cause, user |-> m.user, verdict |-> v.verdict, reason |-> v.reason,
     trusted |-> r.trusted,
     dry |-> cfg.dry_run, rpc |-> r.rpc, strike |-> r.strike, forward |-> r.forward,
     status |-> r.status, t |-> t, prev |-> h.rpc_time[m.user],
     rule |-> IF "rule" \in DOMAIN v THEN v.rule ELSE "general", len |-> m.text.len,
     llm |-> "none", error |-> "none"]

\* the history after one dispatch of verdict v for message m with outcome r
Logged(src, cause, m, v, r, cfg, t, h) ==
    [h EXCEPT !.last = Dispatched(src, cause, m, v, r, cfg, t, h),
              !.rpc_time = IF r.rpc # "none" THEN [@ EXCEPT ![m.user] = t] ELSE @]

\* the history after an LLM call failed for good: nothing is dispatched
Failed(src, u, h) ==
    [h EXCEPT !.last = [NoDispatch EXCEPT !.src = src, !.cause = "failed", !.user = u]]

----------------------------------------------------------------------------
(* Initial state: the process right after run() has built its components *)

Init ==
    /\ now = StartTime
    /\ call = NoCall
    /\ status = NoStatus
    /\ updates = NoUpdates
    /\ run = NoRun
    /\ context_buffer = NoContext
    /\ config \in [provider : {"local", "both"}, dry_run : BOOLEAN, admin_ids : {{}}]
    /\ cache = << >>
    /\ user_last_action = [u \in Users |-> 0]
    /\ user_warnings = [u \in Users |-> 0]
       \* user 1 is a long-standing member two messages short of trusted,
       \* pre-registered by bulk_register; user 2 has never been seen
    /\ users = [u \in Users |->
                  IF u = 1 THEN [known |-> TRUE, first_seen |-> StartTime - 8 * DaySeconds,
                                 message_count |-> trusted_min_messages - 2,
                                 strikes |-> << >>]
                  ELSE NoStats]
    /\ newcomers = [u \in Users |-> IF u = 1 THEN StartTime - window_seconds - 1 ELSE Absent]
    /\ queue = << >>
    /\ flush_event = FALSE
       \* no quota file, or the file a run earlier this day left with the budget spent
    /\ \E used \in {0, daily_limit} :
          quota = maybe_reset([day_start |-> current_day_start(StartTime),
                               requests_used |-> used, newcomer_requests |-> 0,
                               last_batch_time |-> IF used = 0 THEN 0 ELSE StartTime - ClockStep],
                              StartTime)
    /\ loop = IF has_openrouter(config.provider) THEN wait_for(quota, now) ELSE Idle
    /\ inst = EmptyBag
    /\ hist = [delivered |-> 0, event |-> NoEvent, hits |-> 0,
               added |-> << >>, drained |-> 0, prev_drained |-> 0,
               dispatches |-> [m \in Messages |-> 0],
               last |-> NoDispatch,
               rpc_time |-> [u \in Users |-> Absent],
               updated |-> Absent, sent |-> 0,
               records |-> quota.requests_used]

----------------------------------------------------------------------------
(* Actions *)

\* the clock advances
Tick ==
    /\ now < StartTime + MaxTicks * ClockStep
    /\ now' = now + ClockStep
       \* hist.records counts the record_* calls since the last UTC midnight
    /\ hist' = [hist EXCEPT !.last = NoDispatch,
                            !.records = IF current_day_start(now') > current_day_start(now)
                                        THEN 0 ELSE @]
    /\ UNCHANGED << config, context_buffer, status, updates, run, call, cache, user_last_action, user_warnings, users, newcomers,
                    queue, flush_event, loop, inst, quota >>

\* ModerationEngine.evaluate(message, chat), called by the gateway: it runs
\* without suspension up to the LLM call of the instant path; batch.add and
\* the pre-filter's delete and review forward leave no engine state to update.
evaluate(m, test_group) ==
    LET u == m.user
        active == update_activity(users, u, now)
        hit == is_processed(cache, m)
        marked == mark_processed(cache, m)
        cooled == is_on_cooldown(user_last_action, u, now)
        pre_match == check(m.text)
        nc == register_user(newcomers, u, now)
        path == IF test_group THEN route_chat(config.provider, nc, u, now, TRUE)
                ELSE route(config.provider, nc, u, now)
        h0 == [hist EXCEPT !.delivered = @ + 1, !.last = NoDispatch,
                           !.event = [msg |-> m, test_group |-> test_group]]
        \* hist.dispatches[k] counts the dispatches of k since it entered the cache
        h1 == [h0 EXCEPT !.dispatches = [k \in Messages |->
                                   IF InSeq(cache, k) /\ k # m /\ ~InSeq(marked, k)
                                   THEN 0 ELSE @[k]]]
        h2 == [h1 EXCEPT !.dispatches[m] = @ + 1]
        pre == [raised |-> FALSE, rpc |-> prefilter_action(config.dry_run),
                strike |-> 0,
                forward |-> IF review_group THEN prefilter_verdict(config.dry_run) ELSE "none",
                status |-> FALSE, trusted |-> is_trusted(active, u, now)]
        queued == add(queue, flush_event, m)
    IN
    /\ IF u = NoUser
       THEN /\ hist' = h0
            /\ UNCHANGED << context_buffer, cache, user_last_action, user_warnings, users,
                            newcomers, queue, flush_event, inst >>
       ELSE /\ users' = active
            /\ IF u \in config.admin_ids /\ ~test_group
               THEN /\ hist' = h0
                    /\ UNCHANGED << context_buffer, cache, user_last_action, user_warnings,
                                    newcomers, queue, flush_event, inst >>
               ELSE /\ context_buffer' = add_context_message(context_buffer, m)
                    /\ IF hit
                       THEN /\ cache' = touch(cache, m)
                            /\ hist' = [h0 EXCEPT !.hits = @ + 1]
                            /\ UNCHANGED << user_last_action, user_warnings, newcomers, queue,
                                            flush_event, inst >>
                       ELSE /\ cache' = marked
                            /\ newcomers' = nc
                            /\ IF cooled
                               THEN /\ hist' = h1
                                    /\ UNCHANGED << user_last_action, user_warnings, queue,
                                                    flush_event, inst >>
                               ELSE IF pre_match # "None"
                               THEN /\ user_last_action' = record_action(user_last_action, u, now)
                                    /\ user_warnings' = IF config.dry_run THEN user_warnings
                                                        ELSE [user_warnings EXCEPT ![u] = @ + 1]
                                    /\ hist' = Logged("prefilter", "keyword", m,
                                                      Dict("delete (pre-filter)", pre_match),
                                                      pre, config, now, h2)
                                    /\ UNCHANGED << queue, flush_event, inst >>
                               ELSE IF path = "batch"
                               THEN /\ queue' = queued.queue
                                    /\ flush_event' = queued.flush_event
                                    /\ hist' = [h2 EXCEPT !.added = Append(@, m)]
                                    /\ UNCHANGED << user_last_action, user_warnings, inst >>
                               ELSE /\ inst' = inst (+) SetToBag({[msg |-> m, provider |-> path, ep |-> 1]})
                                    /\ hist' = h2
                                    /\ UNCHANGED << user_last_action, user_warnings, queue, flush_event >>
    /\ UNCHANGED << now, config, status, updates, run, call, loop, quota >>

\* the gateway delivers a message of a chat that is no test group
Evaluate(m) ==
    /\ hist.delivered < MaxDeliveries
    /\ evaluate(m, FALSE)

\* the LLM call of an instant task returns a response: _parse_verdict, _apply_verdict
\* (an exception of _apply_verdict is swallowed by _evaluate_instant)
InstantSuccess(task, raw) ==
    LET v == parse_verdict(raw)
        r == apply_verdict(v, task.msg, config.dry_run, user_last_action,
                           user_warnings, users, now)
        recorded == instant_call(task.provider) = "chat_openrouter"
        answer == IF raw.form = "garbage" THEN "unparseable" ELSE "answered"
        h0 == [hist EXCEPT !.records = IF recorded THEN @ + 1 ELSE @, !.last = NoDispatch]
    IN
    /\ BagIn(task, inst)
    /\ inst' = inst (-) SetToBag({task})
       \* status.update(self.quota.status_dict(), ...) at the end of _apply_verdict
    /\ quota' = LET q1 == IF recorded THEN record_newcomer_request(quota, now) ELSE quota
                IN IF r.status /\ review_group THEN maybe_reset(q1, now) ELSE q1
    /\ user_last_action' = r.ula
    /\ user_warnings' = r.warnings
    /\ users' = r.users
    /\ hist' = IF r.raised THEN h0 ELSE Logged("instant", answer, task.msg, v, r, config, now, h0)
    /\ UNCHANGED << now, config, context_buffer, status, updates, run, call, cache, newcomers, queue, flush_event, loop >>

\* _evaluate_instant's handler of httpx.HTTPStatusError: what leaves it.  A
\* 400 enters the retry, whose build_messages(...) call names sender_username,
\* which is no name of _evaluate_instant: NameError, before any request is
\* made.  Any other status is raised again.
on_status_error(outcome) == IF outcome = "400" THEN "NameError" ELSE "HTTPStatusError"

\* the LLM call of an instant task fails.  "exhausted": the endpoint gave up
\* (retries used up, or a connect error); "400": HTTP 400; "status": another
\* HTTP 4xx that is not 429.  LLMClient.chat goes on to its next endpoint
\* when one is left; everything else ends in the outer except clause of
\* _evaluate_instant, the error that on_status_error leaves included.
InstantFail(task, outcome) ==
    LET failover == /\ instant_call(task.provider) = "chat"
                    /\ outcome = "exhausted"
                    /\ task.ep < Len(Endpoints(config.provider))
        error == IF outcome = "exhausted" THEN "exhausted" ELSE on_status_error(outcome)
    IN
    /\ BagIn(task, inst)
    /\ inst' = IF failover
               THEN (inst (-) SetToBag({task})) (+) SetToBag({[task EXCEPT !.ep = @ + 1]})
               ELSE inst (-) SetToBag({task})
    /\ hist' = IF failover THEN [hist EXCEPT !.last = NoDispatch]
               ELSE [Failed("instant", task.msg.user, hist) EXCEPT
                        !.last.reason = outcome,
                        !.last.llm = instant_call(task.provider),
                        !.last.error = error]
    /\ UNCHANGED << now, config, context_buffer, status, updates, run, call, cache, user_last_action, user_warnings, users,
                    newcomers, queue, flush_event, loop, quota >>

\* run_loop wakes (the flush signal is set, or the timeout has passed), clears
\* the signal and awaits on_tick, whose argument status_dict() reads the quota
LoopWake ==
    /\ loop.pc = "waiting"
    /\ wait_ends(flush_event, now, loop.deadline)
    /\ flush_event' = FALSE
    /\ quota' = maybe_reset(quota, now)
    /\ loop' = [loop EXCEPT !.pc = "tick"]
    /\ hist' = [hist EXCEPT !.last = NoDispatch]
    /\ UNCHANGED << now, config, context_buffer, status, updates, run, call, cache, user_last_action, user_warnings, users,
                    newcomers, queue, inst >>

\* on_tick has returned or raised (run_loop logs the exception and goes on):
\* an empty queue starts the next iteration; otherwise handle_batch_flush
\* drains the queue and awaits chat_openrouter
LoopTick(outcome) ==
    /\ loop.pc = "tick"
    /\ IF is_empty(queue)
       THEN /\ loop' = wait_for(quota, now)
            /\ quota' = maybe_reset(quota, now)
            /\ UNCHANGED queue
       ELSE /\ loop' = [loop EXCEPT !.pc = "cloud_call", !.items = drain(queue).items]
            /\ queue' = drain(queue).queue
            /\ UNCHANGED quota
    /\ hist' = IF is_empty(queue)
               THEN [hist EXCEPT !.last = [NoDispatch EXCEPT !.cause = outcome]]
               ELSE [hist EXCEPT !.last = [NoDispatch EXCEPT !.cause = outcome],
                                 !.prev_drained = hist.drained,
                                 !.drained = hist.drained + Len(drain(queue).items)]
    /\ UNCHANGED << now, config, context_buffer, status, updates, run, call, cache, user_last_action, user_warnings, users,
                    newcomers, flush_event, inst >>

\* chat_openrouter returns a response: record_batch_request(), parse_batch_verdicts
CloudSuccess(raw) ==
    /\ loop.pc = "cloud_call"
    /\ quota' = record_batch_request(quota, now, 1)
    /\ loop' = [loop EXCEPT !.pc = "dispatch", !.idx = 1,
                            !.verdicts = parse_batch_verdicts(raw, Len(loop.items))]
    /\ hist' = [hist EXCEPT !.records = @ + 1, !.last = NoDispatch]
    /\ UNCHANGED << now, config, context_buffer, status, updates, run, call, cache, user_last_action, user_warnings, users,
                    newcomers, queue, flush_event, inst >>

\* variant: the except clause puts the drained items back
cloud_failed_requeue(q, qt, items) == [queue |-> items \o q, quota |-> qt]

\* handle_batch_flush's except clause: it logs and returns; the queue and the
\* quota it leaves
cloud_failed(q, qt, items) == [queue |-> q, quota |-> qt]

\* chat_openrouter raises: handle_batch_flush logs and returns, the drained
\* items are dropped, and run_loop starts its next iteration
CloudFail ==
    LET left == cloud_failed(queue, quota, loop.items) IN
    /\ loop.pc = "cloud_call"
    /\ loop' = wait_for(left.quota, now)
    /\ queue' = left.queue
    /\ quota' = maybe_reset(left.quota, now)
    /\ hist' = Failed("batch", 0, hist)
    /\ UNCHANGED << now, config, context_buffer, status, updates, run, call, cache, user_last_action, user_warnings, users,
                    newcomers, flush_event, inst >>

\* the verdicts the for loop of handle_batch_flush can pair with item i
verdicts_for(verdicts, i) ==
    IF i > verdicts.len THEN { Dict("ok", "missing verdict") }
    ELSE IF verdicts.failsafe THEN { Dict("ok", "unparseable batch response") }
    ELSE Values

\* one round of the for loop of handle_batch_flush.  An exception of
\* _apply_verdict leaves handle_batch_flush and is logged by run_loop; after
\* the last item status.update(quota.status_dict(), ...) reads the quota.
FlushDispatch(v) ==
    LET m == loop.items[loop.idx]
        r == apply_verdict(v, m, config.dry_run, user_last_action,
                           user_warnings, users, now)
        done == r.raised \/ loop.idx = Len(loop.items)
        answer == IF loop.idx > loop.verdicts.len THEN "missing"
                  ELSE IF loop.verdicts.failsafe THEN "unparseable" ELSE "answered"
    IN
    /\ loop.pc = "dispatch"
    /\ v \in verdicts_for(loop.verdicts, loop.idx)
    /\ user_last_action' = r.ula
    /\ user_warnings' = r.warnings
    /\ users' = r.users
    /\ hist' = IF r.raised THEN [hist EXCEPT !.last = NoDispatch]
               ELSE Logged("batch", answer, m, v, r, config, now, hist)
    /\ loop' = IF done THEN wait_for(quota, now) ELSE [loop EXCEPT !.idx = @ + 1]
    /\ quota' = IF done \/ (r.status /\ review_group) THEN maybe_reset(quota, now) ELSE quota
    /\ UNCHANGED << now, config, context_buffer, status, updates, run, call, cache, newcomers, queue, flush_event, inst >>

Next ==
    \/ Tick
    \/ \E m \in Messages : Evaluate(m)
    \/ \E task \in BagToSet(inst) : \E raw \in Answers : InstantSuccess(task, raw)
    \/ \E task \in BagToSet(inst) : \E outcome \in {"exhausted", "400", "status"} :
          InstantFail(task, outcome)
    \/ LoopWake
    \/ \E outcome \in {"tick returned", "tick raised"} : LoopTick(outcome)
    \/ \E raw \in BatchAnswers(Len(loop.items)) : CloudSuccess(raw)
    \/ CloudFail
    \/ \E v \in Values \cup { Dict("ok", "missing verdict"),
                               Dict("ok", "unparseable batch response") } : FlushDispatch(v)

Spec == Init /\ [][Next]_vars

RECURSIVE Copies(_, _)
Copies(S, bag) ==
    IF S = {} THEN 0
    ELSE LET x == CHOOSE x \in S : TRUE IN CopiesIn(x, bag) + Copies(S \ {x}, bag)

\* the cloud calls that have been started and have not returned
CloudInFlight ==
    (IF loop.pc = "cloud_call" THEN 1 ELSE 0)
    + Copies({ task \in BagToSet(inst) : target(task, config) = "openrouter" }, inst)

----------------------------------------------------------------------------
(* The quota manager alone: a process started with no quota file or with the
   file an earlier run saved, and any interleaving of its operations *)

Today == current_day_start(StartTime)

\* what save() may have written: the counters of this day or of the day before
QuotaFiles ==
    { f \in [day_start : {Today, Today - DaySeconds},
             requests_used : 0..daily_limit, newcomer_requests : 0..1,
             last_batch_time : {0, StartTime - ClockStep}] : f.newcomer_requests <= f.requests_used }

\* QuotaManager.__init__: defaults, _load(), _maybe_reset()
InitQuota ==
    /\ now = StartTime
    /\ call = NoCall
    /\ status = NoStatus
    /\ updates = NoUpdates
    /\ run = NoRun
    /\ context_buffer = NoContext
    /\ config = [provider |-> "both", dry_run |-> FALSE, admin_ids |-> {}]
    /\ cache = << >>
    /\ user_last_action = [u \in Users |-> 0]
    /\ user_warnings = [u \in Users |-> 0]
    /\ users = [u \in Users |-> NoStats]
    /\ newcomers = [u \in Users |-> Absent]
    /\ queue = << >>
    /\ flush_event = FALSE
    /\ loop = Idle
    /\ inst = EmptyBag
    /\ \E f \in QuotaFiles :
          /\ quota = maybe_reset(f, StartTime)
          /\ hist = [delivered |-> 0, event |-> NoEvent, hits |-> 0,
                     added |-> << >>, drained |-> 0, prev_drained |-> 0,
                     dispatches |-> [m \in Messages |-> 0],
                     last |-> NoDispatch,
                     rpc_time |-> [u \in Users |-> Absent],
               updated |-> Absent, sent |-> 0,
                     records |-> IF f.day_start = Today THEN f.requests_used ELSE 0]

QuotaFrame ==
    UNCHANGED << config, context_buffer, status, updates, run, call, cache, user_last_action, user_warnings, users, newcomers,
                 queue, flush_event, loop, inst >>

QuotaTick ==
    /\ now < StartTime + MaxTicks * ClockStep
    /\ now' = now + ClockStep
    /\ hist' = [hist EXCEPT !.records = IF current_day_start(now') > current_day_start(now)
                                        THEN 0 ELSE @]
    /\ UNCHANGED quota
    /\ QuotaFrame

RecordBatch ==
    /\ hist.records < MaxRecords
    /\ quota' = record_batch_request(quota, now, 1)
    /\ hist' = [hist EXCEPT !.records = @ + 1]
    /\ UNCHANGED now
    /\ QuotaFrame

RecordNewcomer ==
    /\ hist.records < MaxRecords
    /\ quota' = record_newcomer_request(quota, now)
    /\ hist' = [hist EXCEPT !.records = @ + 1]
    /\ UNCHANGED now
    /\ QuotaFrame

\* remaining_requests, interval_seconds and status_dict all start with _maybe_reset()
ReadQuota ==
    /\ quota' = maybe_reset(quota, now)
    /\ UNCHANGED << now, hist >>
    /\ QuotaFrame

\* next_batch_time: "now" before the first batch, else it reads interval_seconds
ReadNextBatchTime ==
    /\ quota' = IF quota.last_batch_time = 0 THEN quota ELSE maybe_reset(quota, now)
    /\ UNCHANGED << now, hist >>
    /\ QuotaFrame

NextQuota ==
    QuotaTick \/ RecordBatch \/ RecordNewcomer \/ ReadQuota \/ ReadNextBatchTime

SpecQuota == InitQuota /\ [][NextQuota]_vars

----------------------------------------------------------------------------
(* Properties *)

Punitive == {"delete", "mute", "ban"}
NonOk == {"warn", "delete", "mute", "ban"}
LLMDispatch == hist.last.src \in {"instant", "batch"} /\ hist.last.cause # "failed"

\* C1: a message is dispatched at most once while its key is in the
\* ProcessedCache, however often and however concurrently it is delivered.
C1_AtMostOneDispatch == \A k \in Messages : hist.dispatches[k] <= 1

\* a message that was dispatched and is in the cache has been delivered again
C1_Witness ==
    \E k \in Messages : InSeq(cache, k) /\ hist.dispatches[k] = 1 /\ hist.hits >= 1

\* C2: two successive actions on one user that are not pre-filter deletes are
\* at least user_cooldown_seconds apart, also inside one flush and for
\* overlapping instant evaluations.
C2_Cooldown ==
    (/\ hist.last.rpc # "none"
     /\ hist.last.src # "prefilter"
     /\ hist.last.prev # Absent
     /\ hist.last.prev < hist.last.t)
    => hist.last.t - hist.last.prev >= user_cooldown_seconds

\* C3: within one UTC day requests_used never exceeds daily_limit + 1.
C3_Budget == quota.requests_used <= daily_limit + 1

\* C4 as stated: no path, the pre-filter shortcut included, calls delete, mute
\* or ban against a user who is trusted at dispatch time.
C4_NoPunitiveOnTrusted ==
    (hist.last.src # "none" /\ hist.last.trusted) => hist.last.rpc \notin Punitive

\* C4 amended: a verdict of the policy model (instant or batch) never makes the
\* engine call delete, mute or ban against a user who is trusted at dispatch
\* time; a live delete, mute or ban verdict leaves exactly one strike.
C4_NoPunitiveOnTrustedLLM ==
    (LLMDispatch /\ hist.last.trusted)
    => /\ hist.last.rpc \notin Punitive
       /\ (hist.last.verdict \in Punitive /\ ~hist.last.dry) => hist.last.strike = 1

\* a trusted user's ban verdict from a flush became a strike
C4_Witness ==
    /\ hist.last.src = "batch"
    /\ hist.last.trusted
    /\ hist.last.verdict = "ban"
    /\ hist.last.strike = 1
    /\ hist.last.rpc = "none"

\* C5 as stated: every non-ok verdict for a non-trusted user gives exactly one
\* action attempt, and for a trusted user exactly one strike and no action.
C5_VerdictActs ==
    (LLMDispatch /\ hist.last.verdict \in NonOk)
    => IF hist.last.trusted
       THEN hist.last.strike = 1 /\ hist.last.rpc = "none"
       ELSE hist.last.rpc = hist.last.verdict /\ hist.last.strike = 0

\* C5 amended: in live mode a warn verdict, and a delete, mute or ban verdict
\* for a non-trusted user, gives exactly one action attempt and no strike; a
\* delete, mute or ban verdict for a trusted user gives exactly one strike and
\* no action; in dry-run mode a non-ok verdict gives neither.
C5_VerdictActsLive ==
    (LLMDispatch /\ hist.last.verdict \in NonOk)
    => IF hist.last.dry
       THEN hist.last.rpc = "none" /\ hist.last.strike = 0
       ELSE IF hist.last.trusted /\ hist.last.verdict \in Punitive
       THEN hist.last.strike = 1 /\ hist.last.rpc = "none"
       ELSE hist.last.rpc = hist.last.verdict /\ hist.last.strike = 0

\* a live mute verdict for a user who is not trusted was executed
C5_Witness ==
    /\ LLMDispatch
    /\ ~hist.last.dry
    /\ ~hist.last.trusted
    /\ hist.last.verdict = "mute"
    /\ hist.last.rpc = "mute"

\* C6: when the LLM call fails for good, the answer cannot be parsed, or the
\* batch answer has no verdict for an item, nothing is done against the user:
\* no action and no strike.
C6_UncertaintyIsOk ==
    hist.last.cause \in {"failed", "unparseable", "missing"}
    => hist.last.rpc = "none" /\ hist.last.strike = 0

\* live mode: an item of a flush had no verdict in the answer
C6_Witness ==
    /\ hist.last.src = "batch"
    /\ hist.last.cause = "missing"
    /\ ~hist.last.dry

\* C7: the queue holds exactly the items added since the last drain, in
\* enqueue order, and the items of the flush in progress are exactly those
\* added between the drain before and its own drain, in enqueue order; an
\* item added while the flush runs is in the queue, not in the flush.
C7_DrainOrder ==
    /\ queue = SubSeq(hist.added, hist.drained + 1, Len(hist.added))
    /\ loop.pc \in {"cloud_call", "dispatch"}
       => loop.items = SubSeq(hist.added, hist.prev_drained + 1, hist.drained)

\* a second flush is running on an item that was added during the first
C7_Witness ==
    /\ loop.pc \in {"cloud_call", "dispatch"}
    /\ hist.prev_drained >= 1
    /\ hist.drained > hist.prev_drained

\* C8: at most one cloud LLM call is in flight.
C8_OneCloudCall == CloudInFlight <= 1

\* the flush's cloud call is in flight while an instant evaluation is suspended
C8_Witness == CloudInFlight = 1 /\ inst # EmptyBag

\* C9: requests_used, as every read and record operation sees it, is the
\* number of record_batch_request and record_newcomer_request calls since this
\* day's midnight (those of a same-day persisted state included).
C9_UsedCountsRecords == maybe_reset(quota, now).requests_used = hist.records

\* requests were recorded after the day rolled over during the run
C9_Witness ==
    /\ current_day_start(now) > Today
    /\ hist.records >= 1
    /\ quota.requests_used = hist.records

\* C10: newcomer_requests never exceeds requests_used.
C10_NewcomerWithinUsed == quota.newcomer_requests <= quota.requests_used

\* both kinds of request have been recorded
C10_Witness ==
    /\ quota.newcomer_requests >= 1
    /\ quota.requests_used > quota.newcomer_requests

----------------------------------------------------------------------------
(* The batch queue and its flush loop alone: a regular user's messages of one
   estimated token each are enqueued while the loop runs *)

ScenarioMessage == [user |-> 1, text |-> [len |-> 4, spam |-> FALSE]]

InitBatch ==
    /\ now = StartTime
    /\ call = NoCall
    /\ status = NoStatus
    /\ updates = NoUpdates
    /\ run = NoRun
    /\ context_buffer = NoContext
    /\ config = [provider |-> "both", dry_run |-> FALSE, admin_ids |-> {}]
    /\ cache = << >>
    /\ user_last_action = [u \in Users |-> 0]
    /\ user_warnings = [u \in Users |-> 0]
    /\ users = [u \in Users |-> create_user([v \in Users |-> NoStats], u,
                                             StartTime - 2 * DaySeconds)[u]]
    /\ newcomers = [u \in Users |-> StartTime - window_seconds - 1]
    /\ queue = << >>
    /\ flush_event = FALSE
    /\ quota = maybe_reset([day_start |-> Today, requests_used |-> 0,
                            newcomer_requests |-> 0, last_batch_time |-> 0], StartTime)
    /\ loop = wait_for(quota, now)
    /\ inst = EmptyBag
    /\ hist = [delivered |-> 0, event |-> NoEvent, hits |-> 0,
               added |-> << >>, drained |-> 0, prev_drained |-> 0,
               dispatches |-> [m \in Messages |-> 0],
               last |-> NoDispatch,
               rpc_time |-> [u \in Users |-> Absent],
               updated |-> Absent, sent |-> 0,
               records |-> 0]

\* await self.batch.add(...) of the batch route
Enqueue ==
    /\ Len(hist.added) < MaxAdds
    /\ queue' = add(queue, flush_event, ScenarioMessage).queue
    /\ flush_event' = add(queue, flush_event, ScenarioMessage).flush_event
    /\ hist' = [hist EXCEPT !.added = Append(@, ScenarioMessage), !.last = NoDispatch]
    /\ UNCHANGED << now, config, context_buffer, status, updates, run, call, cache, user_last_action, user_warnings, users,
                    newcomers, loop, inst, quota >>

NextBatch ==
    \/ Tick
    \/ Enqueue
    \/ LoopWake
    \/ \E outcome \in {"tick returned", "tick raised"} : LoopTick(outcome)
    \/ \E raw \in BatchAnswers(Len(loop.items)) : CloudSuccess(raw)
    \/ CloudFail
    \/ \E v \in Values \cup { Dict("ok", "missing verdict"),
                               Dict("ok", "unparseable batch response") } : FlushDispatch(v)

SpecBatch == InitBatch /\ [][NextBatch]_vars

----------------------------------------------------------------------------
(* One LLMClient.chat call made by _evaluate_instant for a message of user 1,
   with every outcome of every attempt *)

InitChat ==
    /\ now = StartTime
    /\ call = NoCall
    /\ status = NoStatus
    /\ updates = NoUpdates
    /\ run = NoRun
    /\ context_buffer = NoContext
    /\ config \in [provider : {"openrouter", "local", "both"}, dry_run : {FALSE}, admin_ids : {{}}]
    /\ cache = << >>
    /\ user_last_action = [u \in Users |-> 0]
    /\ user_warnings = [u \in Users |-> 0]
    /\ users = [u \in Users |-> NoStats]
    /\ newcomers = [u \in Users |-> Absent]
    /\ queue = << >>
    /\ flush_event = FALSE
    /\ quota = maybe_reset([day_start |-> Today, requests_used |-> 0,
                            newcomer_requests |-> 0, last_batch_time |-> 0], StartTime)
    /\ loop = Idle
    /\ inst = EmptyBag
    /\ hist = [delivered |-> 0, event |-> NoEvent, hits |-> 0,
               added |-> << >>, drained |-> 0, prev_drained |-> 0,
               dispatches |-> [m \in Messages |-> 0],
               last |-> NoDispatch,
               rpc_time |-> [u \in Users |-> Absent],
               updated |-> Absent, sent |-> 0,
               records |-> 0]

ChatFrame ==
    UNCHANGED << now, config, context_buffer, status, updates, run, cache, user_last_action, user_warnings, users, newcomers,
                 queue, flush_event, loop, inst, quota >>

\* chat() is entered: the first endpoint, the first attempt
ChatStart ==
    /\ call.pc = "idle"
    /\ call' = IF max_retries > 0
               THEN [call EXCEPT !.pc = "attempt", !.ep = 1, !.attempt = 0]
               ELSE [call EXCEPT !.pc = "raised", !.error = "all endpoints failed"]
    /\ UNCHANGED hist
    /\ ChatFrame

\* await ep.chat(messages) ends
ChatAttempt(outcome) ==
    /\ call.pc = "attempt"
    /\ call' = after_attempt(call, outcome, Endpoints(config.provider))
    /\ UNCHANGED hist
    /\ ChatFrame

\* await asyncio.sleep(...) ends
ChatWake ==
    /\ call.pc = "sleep"
    /\ call' = after_sleep(call, Endpoints(config.provider))
    /\ UNCHANGED hist
    /\ ChatFrame

\* the exception reaches the except clause of _evaluate_instant, which returns
Swallow ==
    /\ call.pc = "raised"
    /\ call' = [call EXCEPT !.pc = "swallowed"]
    /\ hist' = Failed("instant", 1, hist)
    /\ ChatFrame

NextChat ==
    \/ ChatStart
    \/ \E outcome \in Outcomes : ChatAttempt(outcome)
    \/ ChatWake
    \/ Swallow

\* every await of the call returns
SpecChat == InitChat /\ [][NextChat]_vars /\ WF_vars(NextChat)

----------------------------------------------------------------------------
(* Routing alone: messages that have passed the gates and the pre-filter, from
   any chat, under every provider setting *)

ChatMessages == [user : Users, text : {[len |-> 4, spam |-> FALSE]}, chat : Chats]

InitRoute ==
    /\ now = StartTime
    /\ call = NoCall
    /\ status = NoStatus
    /\ updates = NoUpdates
    /\ run = NoRun
    /\ context_buffer = NoContext
    /\ config \in [provider : {"openrouter", "local", "both"}, dry_run : {FALSE}, admin_ids : {{}}]
    /\ cache = << >>
    /\ user_last_action = [u \in Users |-> 0]
    /\ user_warnings = [u \in Users |-> 0]
    /\ users = [u \in Users |-> NoStats]
    /\ newcomers = [u \in Users |-> IF u = 1 THEN StartTime - window_seconds - 1 ELSE Absent]
    /\ queue = << >>
    /\ flush_event = FALSE
    /\ quota = maybe_reset([day_start |-> Today, requests_used |-> 0,
                            newcomer_requests |-> 0, last_batch_time |-> 0], StartTime)
    /\ loop = Idle
    /\ inst = EmptyBag
    /\ hist = [delivered |-> 0, event |-> NoEvent, hits |-> 0,
               added |-> << >>, drained |-> 0, prev_drained |-> 0,
               dispatches |-> [m \in Messages |-> 0],
               last |-> NoDispatch,
               rpc_time |-> [u \in Users |-> Absent],
               updated |-> Absent, sent |-> 0,
               records |-> 0]

\* evaluate from register_user on, for a message that no gate stops: steps 2, 5 and 6
Route(m) ==
    LET nc == register_user(newcomers, m.user, now)
        path == route_chat(config.provider, nc, m.user, now, is_test_group(m.chat))
        queued == add(queue, flush_event, m)
    IN
    /\ hist.delivered < MaxDeliveries
    /\ newcomers' = nc
    /\ IF path = "batch"
       THEN /\ queue' = queued.queue
            /\ flush_event' = queued.flush_event
            /\ UNCHANGED inst
       ELSE /\ inst' = inst (+) SetToBag({[msg |-> m, provider |-> path, ep |-> 1]})
            /\ UNCHANGED << queue, flush_event >>
    /\ hist' = [hist EXCEPT !.delivered = @ + 1]
    /\ UNCHANGED << now, config, context_buffer, status, updates, run, call, cache, user_last_action, user_warnings, users,
                    loop, quota >>

NextRoute == \E m \in ChatMessages : Route(m)

SpecRoute == InitRoute /\ [][NextRoute]_vars

\* fractions << numerator, denominator >> with positive denominators
FracLeq(a, b) == a[1] * b[2] <= b[1] * a[2]

\* the quota state with one more request used
OneMoreUsed(q) == [q EXCEPT !.requests_used = @ + 1]

\* C11 as stated: at a fixed time of day interval_seconds does not grow when
\* requests_used grows.
C11_IntervalNonIncreasing ==
    FracLeq(interval_seconds(OneMoreUsed(quota), now), interval_seconds(quota, now))

\* C11 amended: at a fixed time of day interval_seconds is never below the
\* 10 s floor, does not shrink when requests_used grows while a request
\* remains afterwards, and is the one-hour fallback when none remains.
C11_IntervalNonDecreasing ==
    LET used == maybe_reset(quota, now).requests_used IN
    /\ FracLeq(<< IntervalFloor, 1 >>, interval_seconds(quota, now))
    /\ used + 1 < daily_limit
       => FracLeq(interval_seconds(quota, now), interval_seconds(OneMoreUsed(quota), now))
    /\ used >= daily_limit => interval_seconds(quota, now) = << ExhaustedInterval, 1 >>

\* one more request used makes the interval strictly longer
C11_Witness ==
    /\ maybe_reset(quota, now).requests_used + 1 < daily_limit
    /\ ~FracLeq(interval_seconds(OneMoreUsed(quota), now), interval_seconds(quota, now))

\* the stored day is over
Stale == current_day_start(now) > quota.day_start

C13_ReadDayIsToday == maybe_reset(quota, now).day_start = current_day_start(now)

\* a read has moved day_start to a midnight that passed during the run
C13_Witness ==
    /\ current_day_start(now) > Today
    /\ quota.day_start = current_day_start(now)
    /\ hist.records = 0

\* the estimated tokens of a queue as the claim states them
RECURSIVE SummedTokens(_)
SummedTokens(q) ==
    IF q = << >> THEN 0
    ELSE (IF Head(q).text.len \div 4 >= 1 THEN Head(q).text.len \div 4 ELSE 1)
         + SummedTokens(Tail(q))

\* C14: after every add the flush signal is raised iff it was raised before
\* or the summed estimated tokens of the queue are >= max_batch_tokens.
C14_FlushSignal ==
    [][Len(queue') = Len(queue) + 1
       => (flush_event' <=> (flush_event \/ SummedTokens(queue') >= max_batch_tokens))]_vars

\* an add has brought the sum exactly to max_batch_tokens and raised the signal
C14_Witness ==
    /\ queue # << >>
    /\ SummedTokens(queue) = max_batch_tokens
    /\ flush_event

\* C15 as stated: once all the messages of the scenario are enqueued, they
\* are drained together in one flush.
C15_AllInOneFlush ==
    Len(hist.added) = MaxAdds
    => \/ hist.drained = 0
       \/ hist.drained = MaxAdds /\ hist.prev_drained = 0

\* C15 amended: the signal is up once the enqueued tokens reach
\* max_batch_tokens and nothing was drained; a flush takes the whole queue, so
\* all the messages when none was drained before; its one cloud call costs
\* exactly one quota unit when it returns and none when it fails, whatever
\* the number of items.
C15_FlushCostsOne ==
    [][/\ (/\ hist'.drained = 0
           /\ SummedTokens(hist'.added) >= max_batch_tokens
           /\ loop'.pc = "waiting") => flush_event'
       /\ (loop.pc = "tick" /\ loop'.pc = "cloud_call")
          => /\ loop'.items = queue
             /\ queue # << >>
             /\ queue' = << >>
       /\ (loop.pc = "cloud_call" /\ loop'.pc = "dispatch")
          => quota'.requests_used = maybe_reset(quota, now).requests_used + 1
       /\ ~(loop.pc = "cloud_call" /\ loop'.pc = "dispatch")
          => quota' \in {quota, maybe_reset(quota, now)}]_vars

\* all the messages were drained by one flush, which cost one request
C15_Witness ==
    /\ loop.pc = "dispatch"
    /\ Len(loop.items) = MaxAdds
    /\ hist.prev_drained = 0
    /\ quota.requests_used = 1

\* the attempts of the call made on endpoint e, in order
AttemptsOn(e) == SelectSeq(call.log, LAMBDA x : x.ep = e)

\* the position of endpoint e in the construction order
Position(e) == CHOOSE i \in 1..Len(Endpoints("both")) : Endpoints("both")[i] = e

\* the cloud endpoint has been given up: max_retries answers of 429, or a connect error
CloudGivenUp ==
    LET cl == AttemptsOn("openrouter") IN
    /\ cl # << >>
    /\ \/ Len(cl) = max_retries /\ \A i \in 1..Len(cl) : cl[i].outcome = "429"
       \/ cl[Len(cl)].outcome = "connect"

\* C16: with provider "both", once the cloud endpoint has answered 429 on each
\* of its max_retries attempts or raised a connect error, the next attempt is
\* the first one on the local endpoint, and a successful local answer is
\* returned with provider_used "local"; no endpoint is tried again after a
\* connect error.
C16_Failover ==
    LET cl == AttemptsOn("openrouter") IN
    /\ \A i \in 1..Len(call.log) : call.log[i].outcome = "connect"
          => \A j \in (i + 1)..Len(call.log) : call.log[j].ep # call.log[i].ep
    /\ (config.provider = "both" /\ CloudGivenUp)
       => /\ Len(call.log) = Len(cl)
             => /\ call.pc = "attempt"
                /\ Endpoints(config.provider)[call.ep] = "local"
                /\ call.attempt = 0
          /\ (Len(call.log) > Len(cl) /\ call.log[Len(call.log)].outcome = "ok")
             => call.pc = "returned" /\ call.result = "local"

\* the cloud endpoint answered 429 twice and the local endpoint answered
C16_Witness ==
    /\ config.provider = "both"
    /\ call.pc = "returned"
    /\ call.result = "local"
    /\ call.log = << [ep |-> "openrouter", outcome |-> "429"],
                     [ep |-> "openrouter", outcome |-> "429"],
                     [ep |-> "local", outcome |-> "ok"] >>

ChatSafe ==
    LET n == Len(call.log) IN
    /\ \A e \in {"openrouter", "local"} : Len(AttemptsOn(e)) <= max_retries
    /\ \A i \in 1..n : \A j \in i..n :
          Position(call.log[i].ep) <= Position(call.log[j].ep)
    /\ \A i \in 1..n : InSeq(Endpoints(config.provider), call.log[i].ep)
    /\ \A i \in 1..(n - 1) : call.log[i].outcome \notin {"ok", "4xx"}
    /\ call.pc = "returned"
       <=> (n > 0 /\ call.log[n].outcome = "ok")
    /\ call.pc = "returned" => call.result = call.log[n].ep
    /\ call.pc \in {"raised", "swallowed"}
       => /\ call.result = "none"
          /\ call.error = "status" <=> (n > 0 /\ call.log[n].outcome = "4xx")
          /\ call.error = "all endpoints failed"
             <=> \A i \in 1..n : call.log[i].outcome \in {"429", "connect", "5xx", "other"}
          /\ call.error = "all endpoints failed"
             => \A i \in 1..Len(Endpoints(config.provider)) :
                   AttemptsOn(Endpoints(config.provider)[i]) # << >>
    /\ (/\ n = max_retries * Len(Endpoints(config.provider))
        /\ \A i \in 1..n : call.log[i].outcome \in {"429", "5xx", "other"}
        /\ call.pc # "sleep")
       => call.pc \in {"raised", "swallowed"} /\ call.error = "all endpoints failed"

\* C17: LLMClient.chat makes at most max_retries attempts per endpoint, in
\* construction order, and always ends: it returns the first successful
\* response or raises, and raises the all-endpoints-failed error when every
\* attempt on every endpoint failed transiently.
C17_ChatTerminates ==
    [] ChatSafe /\ <>(call.pc \in {"returned", "raised", "swallowed"})

\* every attempt on both endpoints failed transiently
C17_Witness ==
    /\ config.provider = "both"
    /\ call.pc = "raised"
    /\ call.error = "all endpoints failed"
    /\ Len(call.log) = 2 * max_retries

C19_Routing ==
    [][hist'.delivered = hist.delivered + 1
       => \E m \in ChatMessages :
             LET instant == /\ is_newcomer(newcomers', m.user, now) \/ is_test_group(m.chat)
                            /\ config.provider \in {"local", "both"}
                 batch == ~instant /\ config.provider \in {"openrouter", "both"}
                 Called(p) == /\ inst' = inst (+) SetToBag({[msg |-> m, provider |-> p, ep |-> 1]})
                              /\ queue' = queue
                 ToLocal == Called("local")
                 ToBatch == queue' = Append(queue, m) /\ inst' = inst
                 ToChat == Called("any")
             IN /\ ToLocal \/ ToBatch \/ ToChat
                /\ ToLocal <=> instant
                /\ ToBatch <=> batch
                /\ ToChat <=> (~instant /\ ~batch)
                /\ instant_call("local") = "chat_local"
                /\ instant_call("any") = "chat"]_vars

\* a long-standing member's message from a test group is with the local model
C19_Witness ==
    \E task \in BagToSet(inst) :
       /\ task.provider = "local"
       /\ ~is_newcomer(newcomers, task.msg.user, now)
       /\ is_test_group(task.msg.chat)
       /\ ~task.msg.chat.has_test

\* a step of evaluate: a message is delivered, or an instant LLM call ends
EvaluateStep == hist'.delivered # hist.delivered \/ inst' # inst

\* C20 as stated: evaluate leaves the QuotaState unchanged.
C20_EvaluateKeepsQuota == [][EvaluateStep => quota' = quota]_vars

\* C20 amended: evaluate never counts a request: all it can do to the
\* QuotaState is the day rollover made by the status_dict() read of a status
\* update; requests_used grows only in the flush handler, by one, when its
\* cloud call has returned a response.
C20_OnlyFlushCounts ==
    [][/\ EvaluateStep => quota' \in {quota, maybe_reset(quota, now)}
       /\ quota' \notin {quota, maybe_reset(quota, now)}
          => /\ loop.pc = "cloud_call"
             /\ loop'.pc = "dispatch"
             /\ quota'.requests_used = maybe_reset(quota, now).requests_used + 1
             /\ quota'.newcomer_requests = maybe_reset(quota, now).newcomer_requests]_vars

\* an instant evaluation has acted on a verdict and the flush handler, not
\* evaluate, has counted the only request
C20_Witness ==
    /\ hist.last.src = "instant"
    /\ hist.last.rpc # "none"
    /\ quota.requests_used = 1
    /\ hist.records = 1

\* C21: in dry-run mode no ActionExecutor warn, delete, mute or ban call is
\* ever made, from the pre-filter or from a verdict, and no strike or warning
\* is counted; a pre-filter match is forwarded to review tagged
\* "delete (pre-filter) [DRY RUN]", a non-ok verdict tagged
\* "<action> [DRY RUN]", and the verdict is followed by a status update.
C21_DryRunNoAction ==
    config.dry_run
    => /\ \A u \in Users : hist.rpc_time[u] = Absent
       /\ hist.last.rpc = "none" /\ hist.last.strike = 0
       /\ \A u \in Users : user_warnings[u] = 0 /\ users[u].strikes = << >>
       /\ hist.last.src = "prefilter"
          => hist.last.forward = "delete (pre-filter) [DRY RUN]"
       /\ (LLMDispatch /\ hist.last.verdict \in NonOk)
          => /\ hist.last.forward = hist.last.verdict \o " [DRY RUN]"
             /\ hist.last.status

\* dry-run: a mute verdict was forwarded with its tag after a pre-filter match
\* of the same run was only logged
C21_Witness ==
    /\ config.dry_run
    /\ LLMDispatch
    /\ hist.last.verdict = "mute"
    /\ hist.last.forward = "mute [DRY RUN]"
    /\ hist.last.status
    /\ \E u \in Users : user_last_action[u] = StartTime

----------------------------------------------------------------------------
(* Verdict dispatch alone: _apply_verdict is called, by _evaluate_instant or
   by the flush handler, for messages of every length of interest and for
   verdicts with and without a "rule" key; user 1 is trusted, user 2 is not *)

MaxDispatches == 2     \* _apply_verdict calls in a run of the dispatch specification

DispatchMessages ==
    [user : Users, text : [len : {0, 99, 100, 101, 250}, spam : {FALSE}]]

DispatchVerdicts ==
    Values \cup { [kind |-> "dict", verdict |-> tag, reason |-> "ads", rule |-> "spam"] :
                    tag \in VerdictTags }

InitDispatch ==
    /\ now = StartTime
    /\ call = NoCall
    /\ status = NoStatus
    /\ updates = NoUpdates
    /\ run = NoRun
    /\ context_buffer = NoContext
    /\ config \in [provider : {"both"}, dry_run : BOOLEAN, admin_ids : {{}}]
    /\ cache = << >>
    /\ user_last_action = [u \in Users |-> 0]
    /\ user_warnings = [u \in Users |-> 0]
    /\ users = [u \in Users |->
                  [known |-> TRUE,
                   first_seen |-> StartTime - (IF u = 1 THEN 8 ELSE 2) * DaySeconds,
                   message_count |-> 2 * trusted_min_messages, strikes |-> << >>]]
    /\ newcomers = [u \in Users |-> StartTime - window_seconds - 1]
    /\ queue = << >>
    /\ flush_event = FALSE
    /\ quota = maybe_reset([day_start |-> Today, requests_used |-> 0,
                            newcomer_requests |-> 0, last_batch_time |-> 0], StartTime)
    /\ loop = Idle
    /\ inst = EmptyBag
    /\ hist = [delivered |-> 0, event |-> NoEvent, hits |-> 0,
               added |-> << >>, drained |-> 0, prev_drained |-> 0,
               dispatches |-> [m \in Messages |-> 0],
               last |-> NoDispatch,
               rpc_time |-> [u \in Users |-> Absent],
               updated |-> Absent, sent |-> 0,
               records |-> 0]

\* await self._apply_verdict(verdict, message, ...); an exception is swallowed
\* by the caller
ApplyVerdict(m, v) ==
    LET r == apply_verdict(v, m, config.dry_run, user_last_action,
                           user_warnings, users, now)
        h0 == [hist EXCEPT !.delivered = @ + 1, !.last = NoDispatch]
    IN
    /\ hist.delivered < MaxDispatches
    /\ user_last_action' = r.ula
    /\ user_warnings' = r.warnings
    /\ users' = r.users
    /\ quota' = IF r.status THEN maybe_reset(quota, now) ELSE quota
    /\ hist' = IF r.raised THEN h0 ELSE Logged("instant", "answered", m, v, r, config, now, h0)
    /\ UNCHANGED << now, config, context_buffer, status, updates, run, call, cache, newcomers, queue, flush_event, loop, inst >>

NextDispatch == \E m \in DispatchMessages : \E v \in DispatchVerdicts : ApplyVerdict(m, v)

SpecDispatch == InitDispatch /\ [][NextDispatch]_vars

Evaluated == cache'[Len(cache')]

\* an evaluate step for a message that is no duplicate, whose sender is not
\* on cooldown, and in which a hard-ban keyword occurs
PreFilterCase ==
    /\ hist'.delivered = hist.delivered + 1
    /\ ~InSeq(cache, Evaluated)
    /\ now - user_last_action[Evaluated.user] >= user_cooldown_seconds
    /\ Evaluated.text.spam

\* C23 as stated: a pre-filter match always increments the warning counter
\* and is forwarded with the verdict "delete (pre-filter)".
C23_PreFilterCounts ==
    [][PreFilterCase
       => /\ user_warnings'[Evaluated.user] = user_warnings[Evaluated.user] + 1
          /\ hist'.last.forward = "delete (pre-filter)"]_vars

\* C23 amended: a non-duplicate message from a user not on cooldown that
\* matches the pre-filter starts no LLM call and is not enqueued; the action
\* time is recorded, which arms the cooldown; in live mode the warning
\* counter is incremented, delete is executed and the review forward carries
\* "delete (pre-filter)"; in dry-run mode the counter is left alone, nothing
\* is executed and the forward carries "delete (pre-filter) [DRY RUN]"; the
\* reason is the match tag.
C23_PreFilterShortcut ==
    [][PreFilterCase
       => LET u == Evaluated.user IN
          /\ inst' = inst /\ queue' = queue /\ flush_event' = flush_event
          /\ loop' = loop /\ quota' = quota
          /\ user_last_action' = [user_last_action EXCEPT ![u] = now]
          /\ now - user_last_action'[u] < user_cooldown_seconds
          /\ user_warnings' = [user_warnings EXCEPT
                                 ![u] = IF config.dry_run THEN @ ELSE @ + 1]
          /\ hist'.last.src = "prefilter"
          /\ hist'.last.user = u
          /\ hist'.last.rpc = (IF config.dry_run THEN "none" ELSE "delete")
          /\ hist'.last.strike = 0
          /\ hist'.last.forward = (IF config.dry_run THEN "delete (pre-filter) [DRY RUN]"
                                   ELSE "delete (pre-filter)")
          /\ hist'.last.reason = "keyword:spamword"]_vars

\* live mode: the pre-filter has deleted a message of a user who had been
\* warned before
C23_Witness ==
    /\ ~config.dry_run
    /\ hist.last.src = "prefilter"
    /\ hist.last.rpc = "delete"
    /\ hist.last.forward = "delete (pre-filter)"
    /\ user_warnings[hist.last.user] = 2
    /\ user_last_action[hist.last.user] = now

----------------------------------------------------------------------------
(* The context window: evaluate is called for messages with and without a
   sender, of admins and of others, from test groups and from other chats,
   with a window of every small capacity *)

MaxIngests == 3        \* evaluate calls in a run of the context specification
MaxWindow == 2         \* largest context_window_messages of the context specification

ContextEvents ==
    [user : Users \cup {NoUser},
     text : {[len |-> 4, spam |-> FALSE], [len |-> 8, spam |-> TRUE]},
     test_group : BOOLEAN]

InitContext ==
    /\ now = StartTime
    /\ call = NoCall
    /\ status = NoStatus
    /\ updates = NoUpdates
    /\ run = NoRun
    /\ context_buffer \in { [maxlen |-> n, items |-> << >>] : n \in 0..MaxWindow }
    /\ config \in [provider : {"both"}, dry_run : {FALSE}, admin_ids : {{}, {2}}]
    /\ cache = << >>
    /\ user_last_action = [u \in Users |-> 0]
    /\ user_warnings = [u \in Users |-> 0]
    /\ users = [u \in Users |-> NoStats]
    /\ newcomers = [u \in Users |-> IF u = 1 THEN StartTime - window_seconds - 1 ELSE Absent]
    /\ queue = << >>
    /\ flush_event = FALSE
    /\ quota = maybe_reset([day_start |-> Today, requests_used |-> 0,
                            newcomer_requests |-> 0, last_batch_time |-> 0], StartTime)
    /\ loop = Idle
    /\ inst = EmptyBag
    /\ hist = [delivered |-> 0, event |-> NoEvent, hits |-> 0,
               added |-> << >>, drained |-> 0, prev_drained |-> 0,
               dispatches |-> [m \in Messages |-> 0],
               last |-> NoDispatch,
               rpc_time |-> [u \in Users |-> Absent],
               updated |-> Absent, sent |-> 0,
               records |-> 0]

\* the gateway calls engine.evaluate(message, event.chat)
Ingest(e) ==
    /\ hist.delivered < MaxIngests
    /\ evaluate([user |-> e.user, text |-> e.text], e.test_group)

NextContext == \E e \in ContextEvents : Ingest(e)

SpecContext == InitContext /\ [][NextContext]_vars

\* the last n elements of s, all of s when it is shorter
LastN(s, n) ==
    LET k == IF n < Len(s) THEN n ELSE Len(s)
    IN [i \in 1..k |-> s[Len(s) - k + i]]

\* the last evaluate call was for a message that passes the skip gates: it
\* has a sender, who is no admin unless the chat is a test group
PassedGates(ev) ==
    /\ ev.msg.user # NoUser
    /\ ~(ev.msg.user \in config.admin_ids /\ ~ev.test_group)

\* C24: the context window never holds more than context_window_messages
\* entries, and every message that passes the skip gates is appended to it,
\* the oldest entry leaving a full window, whether the message is then
\* dropped as a duplicate, stopped by the cooldown, pre-filtered, enqueued or
\* sent to a model.
C24_ContextWindow ==
    [][/\ Len(context_buffer'.items) <= context_buffer'.maxlen
       /\ context_buffer'.maxlen = context_buffer.maxlen
       /\ (hist'.delivered = hist.delivered + 1 /\ PassedGates(hist'.event))
          => context_buffer'.items
               = LastN(context_buffer.items \o << hist'.event.msg >>, context_buffer.maxlen)]_vars

\* a window of two holds a message and its redelivery, which the dedup gate
\* dropped, after an older entry has left the window
C24_Witness ==
    /\ context_buffer.maxlen = 2
    /\ hist.delivered = 3
    /\ hist.hits = 1
    /\ config.admin_ids = {}
    /\ users[1].message_count + users[2].message_count = 3
    /\ Len(context_buffer.items) = 2
    /\ context_buffer.items[1] = context_buffer.items[2]

----------------------------------------------------------------------------
(* The newcomer tracker alone: a process started with no newcomer file or
   with a file an earlier run saved, and any sequence of register_user and
   bulk_register calls and advances of the clock *)

MaxNewcomerOps == 4    \* operations and clock advances in a run of the newcomer specification

\* what save() may have written for a user: nothing, a first_seen exactly one
\* window ago, or a recent one
NewcomerFiles == [Users -> {Absent, StartTime - window_seconds, StartTime - ClockStep}]

InitNewcomer ==
    /\ now = StartTime
    /\ call = NoCall
    /\ status = NoStatus
    /\ updates = NoUpdates
    /\ run = NoRun
    /\ context_buffer = NoContext
    /\ config = [provider |-> "both", dry_run |-> FALSE, admin_ids |-> {}]
    /\ cache = << >>
    /\ user_last_action = [u \in Users |-> 0]
    /\ user_warnings = [u \in Users |-> 0]
    /\ users = [u \in Users |-> NoStats]
    /\ newcomers \in NewcomerFiles
    /\ queue = << >>
    /\ flush_event = FALSE
    /\ quota = maybe_reset([day_start |-> Today, requests_used |-> 0,
                            newcomer_requests |-> 0, last_batch_time |-> 0], StartTime)
    /\ loop = Idle
    /\ inst = EmptyBag
    /\ hist = [delivered |-> 0, event |-> NoEvent, hits |-> 0,
               added |-> << >>, drained |-> 0, prev_drained |-> 0,
               dispatches |-> [m \in Messages |-> 0],
               last |-> NoDispatch,
               rpc_time |-> [u \in Users |-> Absent],
               updated |-> Absent, sent |-> 0,
               records |-> 0]

NewcomerFrame ==
    UNCHANGED << config, context_buffer, status, updates, run, call, cache, user_last_action, user_warnings, users,
                 queue, flush_event, loop, inst, quota >>

\* the clock advances: a short while, up to the end of a window, or a whole window
NewcomerTick(d) ==
    /\ hist.delivered < MaxNewcomerOps
    /\ now' = now + d
    /\ hist' = [hist EXCEPT !.delivered = @ + 1]
    /\ UNCHANGED newcomers
    /\ NewcomerFrame

RegisterUser(u) ==
    /\ hist.delivered < MaxNewcomerOps
    /\ newcomers' = register_user(newcomers, u, now)
    /\ hist' = [hist EXCEPT !.delivered = @ + 1]
    /\ UNCHANGED now
    /\ NewcomerFrame

BulkRegister(user_ids) ==
    /\ hist.delivered < MaxNewcomerOps
    /\ newcomers' = bulk_register(newcomers, user_ids, now)
    /\ hist' = [hist EXCEPT !.delivered = @ + 1]
    /\ UNCHANGED now
    /\ NewcomerFrame

NextNewcomer ==
    \/ \E d \in {ClockStep, window_seconds - ClockStep, window_seconds} : NewcomerTick(d)
    \/ \E u \in Users : RegisterUser(u)
    \/ \E user_ids \in SUBSET Users : BulkRegister(user_ids)

SpecNewcomer == InitNewcomer /\ [][NextNewcomer]_vars

\* user u is unknown, or was first seen less than 24 hours before time t
InsideWindow(n, u, t) == n[u] = Absent \/ t - n[u] < 24 * 3600

\* C25: is_newcomer(u) is true iff u is not in the map or now - first_seen(u)
\* is less than the window: a user first seen exactly one window ago, or
\* earlier, is not a newcomer, and stays none through every register_user
\* and bulk_register call and every advance of the clock; a bulk-registered
\* user is not a newcomer.
C25_NewcomerBoundary ==
    [][\A u \in Users :
         /\ is_newcomer(newcomers, u, now) <=> InsideWindow(newcomers, u, now)
         /\ is_newcomer(newcomers', u, now') <=> InsideWindow(newcomers', u, now')
         /\ (newcomers[u] # Absent /\ newcomers[u] <= now - 24 * 3600)
            => /\ ~is_newcomer(newcomers, u, now)
               /\ ~is_newcomer(newcomers', u, now')
               /\ newcomers'[u] = newcomers[u]
         /\ (newcomers'[u] # newcomers[u] /\ newcomers[u] # Absent)
            => ~is_newcomer(newcomers', u, now')]_vars

\* a user registered during the run is exactly one window old, next to a
\* user who is ten seconds short of it
C25_Witness ==
    /\ newcomers[1] = StartTime
    /\ now = StartTime + 24 * 3600
    /\ ~is_newcomer(newcomers, 1, now)
    /\ newcomers[2] = StartTime + ClockStep
    /\ is_newcomer(newcomers, 2, now)

----------------------------------------------------------------------------
(* The processed cache alone: a ProcessedCache of capacity two and any
   sequence of is_processed and mark_processed calls on three keys *)

MaxCacheOps == 5       \* cache operations in a run of the cache specification
cache_capacity == 2    \* ProcessedCache(max_size) of the cache specification

\* keys (chat_id, message_id), written as a message of the chat
CacheKeys == [user : {1}, text : [len : {1, 2, 3}, spam : {FALSE}]]

InitCache ==
    /\ now = StartTime
    /\ call = NoCall
    /\ status = NoStatus
    /\ updates = NoUpdates
    /\ run = NoRun
    /\ context_buffer = NoContext
    /\ config = [provider |-> "both", dry_run |-> FALSE, admin_ids |-> {}]
    /\ cache = << >>
    /\ user_last_action = [u \in Users |-> 0]
    /\ user_warnings = [u \in Users |-> 0]
    /\ users = [u \in Users |-> NoStats]
    /\ newcomers = [u \in Users |-> Absent]
    /\ queue = << >>
    /\ flush_event = FALSE
    /\ quota = maybe_reset([day_start |-> Today, requests_used |-> 0,
                            newcomer_requests |-> 0, last_batch_time |-> 0], StartTime)
    /\ loop = Idle
    /\ inst = EmptyBag
    /\ hist = [delivered |-> 0, event |-> NoEvent, hits |-> 0,
               added |-> << >>, drained |-> 0, prev_drained |-> 0,
               dispatches |-> [m \in Messages |-> 0],
               last |-> NoDispatch,
               rpc_time |-> [u \in Users |-> Absent],
               updated |-> Absent, sent |-> 0,
               records |-> 0]

\* one call of the cache: hist.last.src names it, hist.last.cause tells
\* whether the key was in the cache, hist.last.verdict is what is_processed
\* returned
CacheOp(op, k, returned, after) ==
    /\ hist.delivered < MaxCacheOps
    /\ cache' = after
    /\ hist' = [hist EXCEPT !.delivered = @ + 1,
                            !.event = [msg |-> k, test_group |-> FALSE],
                            !.last = [NoDispatch EXCEPT
                                        !.src = op, !.verdict = returned,
                                        !.cause = IF InSeq(cache, k) THEN "present"
                                                  ELSE "absent"]]
    /\ UNCHANGED << now, config, context_buffer, status, updates, run, call, user_last_action, user_warnings,
                    users, newcomers, queue, flush_event, loop, inst, quota >>

IsProcessed(k) ==
    CacheOp("is_processed", k, IF is_processed(cache, k) THEN "True" ELSE "False",
            touch(cache, k))

MarkProcessed(k) ==
    CacheOp("mark_processed", k, "None", mark_processed_in(cache, k, cache_capacity))

NextCache ==
    \/ \E k \in CacheKeys : IsProcessed(k)
    \/ \E k \in CacheKeys : MarkProcessed(k)

SpecCache == InitCache /\ [][NextCache]_vars

\* C26: the cache never holds more keys than its capacity (and no key
\* twice); right after mark_processed(k), is_processed(k) is true;
\* mark_processed(k) for a key already present leaves the size as it is, and
\* for a new key grows it by one up to the capacity; is_processed answers
\* whether the key is present and leaves the size as it is.
C26_CacheBounded ==
    [][LET k == hist'.event.msg
           present == \E i \in 1..Len(cache) : cache[i] = k
       IN
       /\ Len(cache') <= cache_capacity
       /\ \A i, j \in 1..Len(cache') : cache'[i] = cache'[j] => i = j
       /\ hist'.last.src = "mark_processed"
          => /\ is_processed(cache', k)
             /\ cache'[Len(cache')] = k
             /\ present => Len(cache') = Len(cache)
             /\ ~present => Len(cache') = (IF Len(cache) < cache_capacity THEN Len(cache) + 1
                                            ELSE cache_capacity)
       /\ hist'.last.src = "is_processed"
          => /\ hist'.last.verdict = "True" <=> present
             /\ Len(cache') = Len(cache)]_vars

\* a key of a full cache was marked again, which kept the size
C26_Witness ==
    /\ Len(cache) = cache_capacity
    /\ hist.last.src = "mark_processed"
    /\ hist.last.cause = "present"
    /\ cache[Len(cache)] = hist.event.msg

----------------------------------------------------------------------------
(* The status specification: StatusReporter under its callers.  run() awaits
   the first update() right after it created the background tasks, so the
   startup call is in initialize() before any other caller runs; the loop
   task and a task of the instant path call update() whenever they are not
   inside one.  One step per await of update(): initialize(), edit_message,
   send_message. *)

MaxUpdates == 3

StatusTimes ==
    {StartTime + d : d \in {ClockStep, STATUS_UPDATE_INTERVAL - ClockStep,
                            STATUS_UPDATE_INTERVAL}}

\* ids are given by the platform: 1 is the status message an earlier run
\* left in the review group, and a sent message gets an id the program holds
\* nowhere
FreshMessageId ==
    CHOOSE i \in 2..(2 + Cardinality(StatusCallers)) :
        /\ i # status.message_id
        /\ \A c \in StatusCallers : i # updates[c].message_id

InitStatus ==
    /\ now = StartTime
    /\ call = NoCall
    /\ status = NoStatus
    /\ updates = [NoUpdates EXCEPT !["startup"].pc = "initialize"]
    /\ run = NoRun
    /\ context_buffer = NoContext
    /\ config = [provider |-> "both", dry_run |-> FALSE, admin_ids |-> {}]
    /\ cache = << >>
    /\ user_last_action = [u \in Users |-> 0]
    /\ user_warnings = [u \in Users |-> 0]
    /\ users = [u \in Users |-> NoStats]
    /\ newcomers = [u \in Users |-> Absent]
    /\ queue = << >>
    /\ flush_event = FALSE
    /\ quota = maybe_reset([day_start |-> Today, requests_used |-> 0,
                            newcomer_requests |-> 0, last_batch_time |-> 0], StartTime)
    /\ loop = Idle
    /\ inst = EmptyBag
    /\ hist = [delivered |-> 1, event |-> NoEvent, hits |-> 0,
               added |-> << >>, drained |-> 0, prev_drained |-> 0,
               dispatches |-> [m \in Messages |-> 0],
               last |-> NoDispatch,
               rpc_time |-> [u \in Users |-> Absent],
               updated |-> Absent, sent |-> 0,
               records |-> 0]

StatusFrame ==
    UNCHANGED << config, context_buffer, run, call, cache, user_last_action, user_warnings,
                 users, newcomers, queue, flush_event, loop, inst, quota >>

\* the clock advances: to a short while after the start, to just before the
\* end of the throttle interval that began at the start, or to its end
StatusTick(t) ==
    /\ t > now
    /\ now' = t
    /\ hist' = [hist EXCEPT !.last = NoDispatch]
    /\ UNCHANGED << status, updates >>
    /\ StatusFrame

\* _apply_verdict after an executed ban, in the loop task or an instant task
StatusRecordBan ==
    /\ \E c \in {"loop", "instant"} : updates[c].pc = "idle"
    /\ status' = record_ban(status, now)
    /\ hist' = [hist EXCEPT !.last = NoDispatch]
    /\ UNCHANGED << now, updates >>
    /\ StatusFrame

\* the flush handler after a batch
StatusRecordBatch ==
    /\ updates["loop"].pc = "idle"
    /\ status' = record_batch(status, now)
    /\ hist' = [hist EXCEPT !.last = NoDispatch]
    /\ UNCHANGED << now, updates >>
    /\ StatusFrame

\* update() from the throttle on, in the step of caller c that reaches it
Throttle(c, st) ==
    LET b == begin_update(st, now) IN
    /\ status' = b.status
    /\ updates' = [updates EXCEPT ![c] = b.update]
    /\ hist' = [hist EXCEPT !.last = [NoDispatch EXCEPT
                                        !.src = "update", !.cause = c, !.t = now,
                                        !.verdict = IF b.update.pc = "idle" THEN "skip"
                                                    ELSE b.update.pc],
                            !.delivered = IF updates[c].pc = "idle" THEN @ + 1 ELSE @]

\* a caller calls update(): up to the await of initialize() the first time,
\* through the throttle afterwards
UpdateCall(c) ==
    /\ c # "startup"
    /\ updates[c].pc = "idle"
    /\ hist.delivered < MaxUpdates
    /\ IF ~status.initialized
       THEN /\ updates' = [updates EXCEPT ![c].pc = "initialize"]
            /\ hist' = [hist EXCEPT !.last = NoDispatch, !.delivered = @ + 1]
            /\ UNCHANGED status
       ELSE Throttle(c, status)
    /\ UNCHANGED now
    /\ StatusFrame

\* initialize() returns: the scan found the old status message, or the one
\* the reporter holds by now, or nothing (an error of the scan included)
InitializeDone(c, found) ==
    /\ updates[c].pc = "initialize"
    /\ Throttle(c, [status EXCEPT !.message_id = IF found # 0 THEN found ELSE @,
                                  !.initialized = TRUE])
    /\ UNCHANGED now
    /\ StatusFrame

\* edit_message returns or raises
EditDone(c, outcome) ==
    LET a == after_edit(status, updates[c], outcome) IN
    /\ updates[c].pc = "edit"
    /\ status' = a.status
    /\ updates' = [updates EXCEPT ![c] = a.update]
    /\ hist' = [hist EXCEPT !.last = [NoDispatch EXCEPT !.src = "edit_message",
                                                        !.cause = outcome],
                            !.updated = IF a.update.pc = "idle" THEN updates[c].now ELSE @,
                            !.sent = IF a.update.pc = "idle" THEN @ ELSE 0]
    /\ UNCHANGED now
    /\ StatusFrame

\* send_message returns or raises
SendDone(c, outcome) ==
    /\ updates[c].pc = "send"
    /\ IF outcome = "ok"
       THEN /\ status' = [status EXCEPT !.message_id = FreshMessageId,
                                        !.last_update_time = updates[c].now]
            /\ hist' = [hist EXCEPT !.last = [NoDispatch EXCEPT !.src = "send_message",
                                                                !.cause = outcome],
                                    !.updated = updates[c].now,
                                    \* hist.sent counts the messages sent by calls that
                                    \* found no message id to edit, since the reporter
                                    \* last gave up an id
                                    !.sent = IF updates[c].message_id = 0 THEN @ + 1 ELSE @]
       ELSE /\ UNCHANGED status
            /\ hist' = [hist EXCEPT !.last = [NoDispatch EXCEPT !.src = "send_message",
                                                                !.cause = outcome]]
    /\ updates' = [updates EXCEPT ![c] = NoUpdate]
    /\ UNCHANGED now
    /\ StatusFrame

NextStatus ==
    \/ \E t \in StatusTimes : StatusTick(t)
    \/ StatusRecordBan
    \/ StatusRecordBatch
    \/ \E c \in StatusCallers : UpdateCall(c)
    \/ \E c \in StatusCallers, found \in {0, 1, status.message_id} :
           InitializeDone(c, found)
    \/ \E c \in StatusCallers, outcome \in {"ok", "not_modified", "error"} :
           EditDone(c, outcome)
    \/ \E c \in StatusCallers, outcome \in {"ok", "error"} : SendDone(c, outcome)

SpecStatus == InitStatus /\ [][NextStatus]_vars

\* the step of an update() call that went through the throttle
ThrottleStep == hist'.last.src = "update"

\* that step left the call awaiting edit_message or send_message
Performed == updates'[hist'.last.cause].pc \in {"edit", "send"}

\* the call is made less than the interval after the last successful update
NearLastUpdate ==
    hist.updated # Absent /\ now - hist.updated < STATUS_UPDATE_INTERVAL

\* C27: an update() called less than 300 s after the last successful update,
\* with the force flag not set, performs no edit and no send and returns
\* with the time of the last update as it was; an update() called with the
\* force flag set is performed whatever time has passed, and clears the flag.
C27_Throttle ==
    [][ThrottleStep =>
          /\ (~status.force_update /\ NearLastUpdate) =>
                 /\ ~Performed
                 /\ updates'[hist'.last.cause] = NoUpdate
                 /\ status'.last_update_time = status.last_update_time
          /\ status.force_update => (Performed /\ ~status'.force_update)]_vars

\* an update() called 290 s after the last successful one, unforced, was skipped
C27_Witness ==
    /\ hist.last.src = "update"
    /\ hist.last.verdict = "skip"
    /\ hist.updated # Absent
    /\ hist.last.t - hist.updated = STATUS_UPDATE_INTERVAL - ClockStep
    /\ ~status.force_update

\* C28: no two edit_message calls for the same status message are in flight
\* at the same time.
C28_OneEditInFlight ==
    \A c, d \in StatusCallers :
        (/\ c # d
         /\ updates[c].pc = "edit"
         /\ updates[d].pc = "edit") => updates[c].message_id # updates[d].message_id

----------------------------------------------------------------------------
(* The shutdown specification: run() with the warm-up task and the batch
   loop task, each at an await.  Timeouts are left to fire at any time.  The
   flush handler is one await here, its chat call; the outcomes of a call
   are an answer, a failure of the provider, or an error from the HTTP
   client that llm_client.close() closed under it. *)

MaxStopAdds == 2

StopMessages == {[user |-> 1, text |-> [len |-> 1, spam |-> FALSE]]}

InitStop ==
    /\ now = StartTime
    /\ call = NoCall
    /\ status = NoStatus
    /\ updates = NoUpdates
    /\ run = [NoRun EXCEPT !.warmup = "call"]
    /\ context_buffer = NoContext
    /\ config = [provider |-> "both", dry_run |-> FALSE, admin_ids |-> {}]
    /\ cache = << >>
    /\ user_last_action = [u \in Users |-> 0]
    /\ user_warnings = [u \in Users |-> 0]
    /\ users = [u \in Users |-> NoStats]
    /\ newcomers = [u \in Users |-> Absent]
    /\ queue = << >>
    /\ flush_event = FALSE
    /\ quota = maybe_reset([day_start |-> Today, requests_used |-> 0,
                            newcomer_requests |-> 0, last_batch_time |-> 0], StartTime)
    /\ loop = [Idle EXCEPT !.pc = "waiting"]
    /\ inst = EmptyBag
    /\ hist = [delivered |-> 0, event |-> NoEvent, hits |-> 0,
               added |-> << >>, drained |-> 0, prev_drained |-> 0,
               dispatches |-> [m \in Messages |-> 0],
               last |-> NoDispatch,
               rpc_time |-> [u \in Users |-> Absent],
               updated |-> Absent, sent |-> 0,
               records |-> 0]

StopFrame ==
    UNCHANGED << now, config, context_buffer, status, updates, call, cache, user_last_action,
                 user_warnings, users, newcomers, inst, quota >>

\* a handler of the gateway queues a message while the client is connected
StopAdd(m) ==
    /\ run.pc \in {"serving", "closing", "disconnecting"}
    /\ hist.delivered < MaxStopAdds
    /\ queue' = add(queue, flush_event, m).queue
    /\ flush_event' = add(queue, flush_event, m).flush_event
    /\ hist' = [hist EXCEPT !.delivered = @ + 1]
    /\ UNCHANGED << loop, run >>
    /\ StopFrame

\* the calls of the tasks that are pending
InFlight(r, l) ==
    (IF r.warmup = "call" THEN {"warmup"} ELSE {})
        \cup (IF l.pc = "cloud_call" THEN {"batch"} ELSE {})

\* _warmup_loop: warm_up_local returns (it swallows its errors), and the task
\* waits for stop_event or the timeout
WarmupDone(outcome) ==
    /\ run.warmup = "call"
    /\ outcome = "aborted" => run.closed
    /\ run' = [run EXCEPT !.warmup = "waiting",
                          !.lost = IF outcome = "aborted" THEN @ \cup ({"warmup"} \cap run.in_flight)
                                   ELSE @]
    /\ UNCHANGED << queue, flush_event, loop, hist >>
    /\ StopFrame

\* _warmup_loop: the wait ends, by stop_event or by the timeout
WarmupWake ==
    /\ run.warmup = "waiting"
    /\ run' = [run EXCEPT !.warmup = loop_top(run.stop_event, "call")]
    /\ UNCHANGED << queue, flush_event, loop, hist >>
    /\ StopFrame

\* run_loop: the wait ends, by _flush_event or by the timeout
StopLoopWake ==
    /\ loop.pc = "waiting"
    /\ flush_event' = FALSE
    /\ loop' = [loop EXCEPT !.pc = "tick"]
    /\ UNCHANGED << queue, run, hist >>
    /\ StopFrame

\* run_loop: on_tick has returned; an empty queue goes back to the top,
\* otherwise the flush handler drains the queue and awaits its chat call
StopLoopTick ==
    /\ loop.pc = "tick"
    /\ IF queue = << >>
       THEN /\ loop' = [loop EXCEPT !.pc = loop_top(run.stop_event, "waiting")]
            /\ UNCHANGED queue
       ELSE /\ loop' = [loop EXCEPT !.pc = "cloud_call", !.items = drain(queue).items]
            /\ queue' = drain(queue).queue
    /\ UNCHANGED << flush_event, run, hist >>
    /\ StopFrame

\* run_loop: the chat call of the flush handler ends and the handler returns
StopLoopCallDone(outcome) ==
    /\ loop.pc = "cloud_call"
    /\ outcome = "aborted" => run.closed
    /\ loop' = [Idle EXCEPT !.pc = loop_top(run.stop_event, "waiting")]
    /\ run' = [run EXCEPT !.lost = IF outcome = "aborted" THEN @ \cup ({"batch"} \cap run.in_flight)
                                   ELSE @]
    /\ UNCHANGED << queue, flush_event, hist >>
    /\ StopFrame

\* run(): run_until_disconnected ends (disconnect or interrupt); the finally
\* block sets stop_event, saves, and awaits llm_client.close()
RunStop ==
    /\ run.pc = "serving"
    /\ run' = [run EXCEPT !.pc = "closing", !.stop_event = TRUE,
                          !.in_flight = InFlight(run, loop)]
    /\ UNCHANGED << queue, flush_event, loop, hist >>
    /\ StopFrame

\* run(): the HTTP clients are closed; session.disconnect() is awaited
CloseDone ==
    /\ run.pc = "closing"
    /\ run' = [run EXCEPT !.pc = "disconnecting", !.closed = TRUE]
    /\ UNCHANGED << queue, flush_event, loop, hist >>
    /\ StopFrame

\* run() returns, and asyncio.run cancels the tasks that are still pending
DisconnectDone ==
    /\ run.pc = "disconnecting"
    /\ run' = [run EXCEPT !.pc = "returned",
                          !.warmup = IF @ = "stopped" THEN @ ELSE "cancelled",
                          !.lost = @ \cup (InFlight(run, loop) \cap run.in_flight)]
    /\ loop' = IF loop.pc = "stopped" THEN loop ELSE [loop EXCEPT !.pc = "cancelled"]
    /\ UNCHANGED << queue, flush_event, hist >>
    /\ StopFrame

NextStop ==
    \/ \E m \in StopMessages : StopAdd(m)
    \/ \E outcome \in {"ok", "failed", "aborted"} : WarmupDone(outcome)
    \/ WarmupWake
    \/ StopLoopWake
    \/ StopLoopTick
    \/ \E outcome \in {"answered", "failed", "aborted"} : StopLoopCallDone(outcome)
    \/ RunStop
    \/ CloseDone
    \/ DisconnectDone

SpecStop == InitStop /\ [][NextStop]_vars

\* C29: an LLM call in flight when stop_event is set completes: it is neither
\* cancelled with its task nor failed by the closing of the HTTP client.
C29_InFlightCallCompletes == run.lost = {}

\* the flush's chat call was in flight at the stop and was cancelled with the
\* loop task when run() returned
C29_Cancelled ==
    /\ run.pc = "returned"
    /\ "batch" \in run.lost
    /\ loop.pc = "cancelled"
    /\ loop.items # << >>

----------------------------------------------------------------------------
\* C30: every dispatch of a non-ok verdict forwards the message to the review
\* target and is followed by a call of StatusReporter.update; for an item of
\* a flush the update that ends the flush handler counts.
C30_ForwardAndStatus ==
    (LLMDispatch /\ hist.last.verdict \in NonOk)
    => /\ hist.last.forward # "none"
       /\ hist.last.status \/ hist.last.src = "batch"

----------------------------------------------------------------------------
\* C31: an instant evaluation does not end on the HTTP 400 of its first
\* chat_local call: the payload is rebuilt and one more chat_local call is
\* made.
C31_RetryAfter400 ==
    ~(/\ hist.last.src = "instant"
      /\ hist.last.cause = "failed"
      /\ hist.last.llm = "chat_local"
      /\ hist.last.reason = "400")

----------------------------------------------------------------------------
\* the message of the event has no user id, or is an admin's outside a test group
SkipGated(ev) ==
    \/ ev.msg.user = NoUser
    \/ ev.msg.user \in config.admin_ids /\ ~ev.test_group

\* C32: evaluate of a message with no user id, or of an admin's message in a
\* chat that is not a test group, changes no state of the engine or of the
\* reputation store: no message count, no context entry, no cache entry, no
\* newcomer registration.
C32_SkipGatesFirst ==
    [][(hist'.delivered = hist.delivered + 1 /\ SkipGated(hist'.event))
         => UNCHANGED << users, context_buffer, cache, newcomers, user_last_action,
                         user_warnings, queue, inst >>]_vars

----------------------------------------------------------------------------
\* C33: after a successful cloud call every drained item is dispatched: the
\* for loop of the flush handler ends only with the dispatch of the last
\* drained item, and it goes from an item to the next only by dispatching it.
C33_EveryItemDispatched ==
    [][(loop.pc = "dispatch" /\ loop' # loop)
         => /\ hist'.last.src = "batch"
            /\ hist'.last.user = loop.items[loop.idx].user
            /\ loop'.pc # "dispatch" => loop.idx = Len(loop.items)]_vars

----------------------------------------------------------------------------
\* C34: when the cloud call of a flush fails, nothing is dispatched and
\* nothing is done against a user, the drained items are not put back into
\* the queue, requests_used does not grow, and the loop goes back to its wait.
C34_CloudFailureDrops ==
    [][(loop.pc = "cloud_call" /\ hist'.last.src = "batch" /\ hist'.last.cause = "failed")
         => /\ loop'.pc = "waiting"
            /\ loop'.items = << >>
            /\ queue' = queue
            /\ quota'.requests_used = maybe_reset(quota, now).requests_used
            /\ quota'.requests_used <= quota.requests_used
            /\ hist'.records = hist.records
            /\ hist'.rpc_time = hist.rpc_time
            /\ hist'.last.rpc = "none" /\ hist'.last.strike = 0
            /\ UNCHANGED << user_last_action, user_warnings, users >>]_vars

\* the cloud call of a flush failed while a message added during the call
\* waits in the queue; the loop is back in its wait
C34_Witness ==
    /\ hist.last.src = "batch"
    /\ hist.last.cause = "failed"
    /\ loop.pc = "waiting"
    /\ hist.drained >= 1
    /\ Len(queue) >= 1

----------------------------------------------------------------------------
\* C35: the loop leaves its wait only on the flush signal or the timeout, and
\* then clears the signal and runs the tick callback; when the tick callback
\* has returned or raised, the flush callback is invoked iff the queue is not
\* empty: an empty queue sends the loop back to its wait with nothing drained,
\* a non-empty one is drained whole into the flush; and no step of the flush
\* callback, an exception of it included, ends the loop.
C35_WakeTickFlush ==
    [][/\ (loop.pc = "waiting" /\ loop' # loop)
          => /\ flush_event \/ now >= loop.deadline
             /\ ~flush_event'
             /\ loop'.pc = "tick"
             /\ queue' = queue
       /\ (loop.pc = "tick" /\ loop' # loop)
          => IF queue = << >>
             THEN /\ loop'.pc = "waiting"
                  /\ hist'.drained = hist.drained
                  /\ queue' = queue
             ELSE /\ loop'.pc = "cloud_call"
                  /\ loop'.items = queue
                  /\ queue' = << >>
       /\ loop.pc \in {"cloud_call", "dispatch"}
          => loop'.pc \in {"cloud_call", "dispatch", "waiting"}
       /\ loop.pc # "off" => loop'.pc # "off"]_vars

\* the loop woke on the timeout with an empty queue, its tick callback
\* raised, and the loop is back in its wait with nothing drained
C35_Witness ==
    /\ hist.last.cause = "tick raised"
    /\ loop.pc = "waiting"
    /\ queue = << >>
    /\ hist.drained = 0
    /\ ~flush_event

----------------------------------------------------------------------------
\* C36: update() edits the status message whose id the reporter holds; when
\* the edit returns, or the platform reports "not modified", the id is kept,
\* the time of the last update is set to the time of the call, and nothing is
\* sent; any other failure of the edit drops the id and goes on to one
\* send_message, after which the call ends: with the id of the new message
\* adopted and the time set when it was sent, with nothing changed when not.
C36_EditInPlace ==
    [][\A c \in StatusCallers :
        /\ (updates[c].pc # "edit" /\ updates'[c].pc = "edit")
           => /\ status'.message_id # 0
              /\ updates'[c].message_id = status'.message_id
        /\ (updates[c].pc = "edit" /\ updates'[c] # updates[c])
           => IF hist'.last.cause \in {"ok", "not_modified"}
              THEN /\ updates'[c].pc = "idle"
                   /\ status'.message_id = status.message_id
                   /\ status'.last_update_time = updates[c].now
              ELSE /\ updates'[c].pc = "send"
                   /\ status'.message_id = 0
                   /\ status'.last_update_time = status.last_update_time
        /\ (updates[c].pc = "send" /\ updates'[c] # updates[c])
           => /\ updates'[c].pc = "idle"
              /\ IF hist'.last.cause = "ok"
                 THEN /\ status'.message_id \notin {0, status.message_id}
                      /\ status'.last_update_time = updates[c].now
                 ELSE status' = status]_vars

\* the platform answered an edit with "not modified": the id is kept and the
\* call has ended without a send
C36_Witness ==
    /\ hist.last.src = "edit_message"
    /\ hist.last.cause = "not_modified"
    /\ status.message_id = 1
    /\ status.last_update_time = now
    /\ \A c \in StatusCallers : updates[c].pc = "idle"

----------------------------------------------------------------------------
\* C37: the queue changes only by add and by drain; add appends its item to
\* the queue; drain returns the whole queue, which is every item added since
\* the drain before, and leaves the queue empty.  So every item accepted by
\* add is returned by exactly one drain.
C37_DrainedExactlyOnce ==
    [][/\ hist'.added # hist.added
          => /\ Len(hist'.added) = Len(hist.added) + 1
             /\ queue' = Append(queue, hist'.added[Len(hist'.added)])
             /\ hist'.drained = hist.drained
       /\ hist'.drained # hist.drained
          => /\ queue = SubSeq(hist.added, hist.drained + 1, Len(hist.added))
             /\ loop'.items = queue
             /\ queue' = << >>
             /\ hist'.drained = Len(hist.added)
             /\ hist'.added = hist.added
       /\ (hist'.added = hist.added /\ hist'.drained = hist.drained)
          => queue' = queue]_vars

\* a second drain returned the one item that was added while the first
\* flush, of two items, was in progress
C37_Witness ==
    /\ loop.pc = "cloud_call"
    /\ hist.prev_drained = 2
    /\ hist.drained = 3
    /\ Len(loop.items) = 1
    /\ queue = << >>

----------------------------------------------------------------------------
(* The wake-up specification: the queue and the flush loop of the batch
   specification, with fairness.  The clock stands still here: the timeout
   of the loop's wait is left to fire at any time, and fairness makes it
   fire; the provider answers or fails every call. *)

\* the timeout of wait_for passes while the signal is not set
LoopTimeout ==
    /\ loop.pc = "waiting"
    /\ ~wait_ends(flush_event, now, loop.deadline)
    /\ flush_event' = FALSE
    /\ quota' = maybe_reset(quota, now)
    /\ loop' = [loop EXCEPT !.pc = "tick"]
    /\ hist' = [hist EXCEPT !.last = [NoDispatch EXCEPT !.cause = "timeout"]]
    /\ UNCHANGED << now, config, context_buffer, status, updates, run, call, cache,
                    user_last_action, user_warnings, users, newcomers, queue, inst >>

FlushStep ==
    \/ \E outcome \in {"tick returned", "tick raised"} : LoopTick(outcome)
    \/ \E raw \in BatchAnswers(Len(loop.items)) : CloudSuccess(raw)
    \/ CloudFail
    \/ \E v \in Values \cup { Dict("ok", "missing verdict"),
                               Dict("ok", "unparseable batch response") } : FlushDispatch(v)

NextWake ==
    \/ Enqueue
    \/ LoopWake
    \/ LoopTimeout
    \/ FlushStep

SpecWake ==
    /\ InitBatch
    /\ [][NextWake]_vars
    /\ WF_vars(LoopWake)
    /\ WF_vars(LoopTimeout)
    /\ WF_vars(FlushStep)

\* C38: a flush signal raised while the loop runs its tick or flush callback
\* stays set until the loop waits again; a loop that waits with the signal
\* set can wake at once, whatever its deadline; and every item added to the
\* queue is eventually drained into a flush.
C38_NoLostWakeup ==
    /\ [][(loop.pc \in {"tick", "cloud_call", "dispatch"} /\ flush_event)
            => flush_event']_vars
    /\ []((loop.pc = "waiting" /\ flush_event) => ENABLED LoopWake)
    /\ \A n \in 1..MaxAdds : (Len(hist.added) >= n) ~> (hist.drained >= n)

\* the loop waits, before its deadline, with the signal that an add raised
\* during the flush callback still set, and the item of that add in the queue
C38_Witness ==
    /\ loop.pc = "waiting"
    /\ flush_event
    /\ now < loop.deadline
    /\ hist.drained >= 1
    /\ Len(queue) >= 1
    /\ hist.last.src = "batch"

----------------------------------------------------------------------------
\* C39: the dispatch of a parsed verdict whose tag is none of ok, warn,
\* delete, mute, ban calls no method of the ActionExecutor that acts on the
\* user and records no strike, in live and in dry-run mode, for a trusted
\* user and for one who is not; no warning is counted either.
C39_UnknownTagNoAction ==
    [][(hist'.last.src # "none" /\ hist'.last.cause = "answered"
            /\ hist'.last.verdict \notin VerdictTags)
         => /\ hist'.last.rpc = "none"
            /\ hist'.last.strike = 0
            /\ hist'.rpc_time = hist.rpc_time
            /\ \A u \in Users : users'[u].strikes = users[u].strikes
            /\ user_warnings' = user_warnings]_vars

\* live mode: a verdict tagged "kick" for the trusted user was dispatched; it
\* was forwarded to review and nothing else was done
C39_Witness ==
    /\ ~config.dry_run
    /\ hist.last.verdict = "kick"
    /\ hist.last.user = 1
    /\ hist.last.trusted
    /\ hist.last.forward = "kick"
    /\ hist.last.rpc = "none"
    /\ users[1].strikes = << >>

----------------------------------------------------------------------------
\* C40: the update() calls that find no status message id to edit send at
\* most one new status message between them (counted anew when a failed
\* edit makes the reporter give up the id it held).
C40_OneNewStatusMessage == hist.sent <= 1

====
